---- MODULE Spec2Model ----
(***************************************************************************)
(* Thread of Ariadne: the embedding cache and similarity ranking engine of *)
(* src/main.ts, as a state machine.                                         *)
(*                                                                          *)
(* Strings are sequences of UTF-16 code units, as charCodeAt sees them.     *)
(* A floating-point vector is kept exactly: EmbeddingVector                 *)
(* [dir |-> d, mag2 |-> m] stands for the numbers d[i] / sqrt(m).  A score  *)
(* [num |-> n, den2 |-> q] stands for n / sqrt(q).  Rounding of doubles is  *)
(* not modelled.                                                            *)
(***************************************************************************)
EXTENDS Integers, Sequences, FiniteSets, TLC

\* ------------------------------------------------------------------ helpers

Range(s) == { s[i] : i \in DOMAIN s }

\* The sum of s[lo..hi], split in halves to keep the recursion shallow.
RECURSIVE SumRange(_, _, _)
SumRange(s, lo, hi) ==
    IF lo > hi THEN 0
    ELSE IF lo = hi THEN s[lo]
    ELSE LET mid == (lo + hi) \div 2
         IN  SumRange(s, lo, mid) + SumRange(s, mid + 1, hi)

SumSeq(s) == SumRange(s, 1, Len(s))

RECURSIVE Flatten(_)
Flatten(ss) == IF ss = << >> THEN << >> ELSE Head(ss) \o Flatten(Tail(ss))

\* An optional value: Absent (undefined, a missing property) or Some(v).
Absent == << >>
Some(v) == << v >>

\* What a call yields that throws instead of returning Some(value).
Throw == << >>

\* --------------------------------------------------------- local embedder

\* String.prototype.toLowerCase on one code unit: A-Z, and the two code
\* units whose lower case is (or starts with) an ASCII letter.
toLowerCase(c) ==
    IF c >= 65 /\ c <= 90 THEN << c + 32 >>
    ELSE IF c = 8490 THEN << 107 >>
    ELSE IF c = 304 THEN << 105, 775 >>
    ELSE << c >>

\* /[a-z0-9]/
isLatin(c) == (c >= 97 /\ c <= 122) \/ (c >= 48 /\ c <= 57)

\* /[\u4E00-\u9FFF\u3040-\u309F\u30A0-\u30FF\uAC00-\uD7AF]/
isCJKChar(c) ==
    \/ (c >= 19968 /\ c <= 40959)
    \/ (c >= 12352 /\ c <= 12447)
    \/ (c >= 12448 /\ c <= 12543)
    \/ (c >= 44032 /\ c <= 55215)

\* /[\u4E00-\u9FFF]/
isChineseChar(c) == c >= 19968 /\ c <= 40959

\* text.toLowerCase().match(/[a-z0-9]+/g) || []
RECURSIVE latinRuns(_, _)
latinRuns(s, cur) ==
    IF s = << >> THEN (IF cur = << >> THEN << >> ELSE << cur >>)
    ELSE IF isLatin(Head(s)) THEN latinRuns(Tail(s), Append(cur, Head(s)))
    ELSE (IF cur = << >> THEN << >> ELSE << cur >>) \o latinRuns(Tail(s), << >>)

latinWords(text) ==
    latinRuns(Flatten([i \in DOMAIN text |-> toLowerCase(text[i])]), << >>)

\* text.match(/[...CJK...]/g) || []
cjkChars(text) ==
    LET hits == SelectSeq(text, isCJKChar)
    IN  [i \in DOMAIN hits |-> << hits[i] >>]

\* One round of simpleHash's loop on a 32-bit value kept as two 16-bit
\* halves: ((hash << 5) - hash) + char, then hash & hash.
hashStep(h, c) ==
    LET lo == 31 * h.lo + c
        hi == 31 * h.hi + (lo \div 65536)
    IN  [hi |-> hi % 65536, lo |-> lo % 65536]

RECURSIVE hashLoop(_, _)
hashLoop(h, str) ==
    IF str = << >> THEN h ELSE hashLoop(hashStep(h, Head(str)), Tail(str))

\* Math.abs of the signed 32-bit value: its magnitude, in [0, 2^31], in halves.
abs32(h) ==
    IF h.hi < 32768 THEN h
    ELSE IF h.lo = 0 THEN [hi |-> (65536 - h.hi) % 65536, lo |-> 0]
    ELSE [hi |-> 65535 - h.hi, lo |-> 65536 - h.lo]

simpleHash(str) == abs32(hashLoop([hi |-> 0, lo |-> 0], str))

\* simpleHash(token) % 100
mod100(h) == ((h.hi % 100) * 36 + h.lo) % 100

LocalDim == 200
HalfDim == 100

\* A placement that uses the first half of the vector for every token.
slotOfOneRange(token) == mod100(simpleHash(token))

\* hash slot of a token, 0-based, as lines 390-396 place it
slotOf(token) ==
    IF \E i \in DOMAIN token : isCJKChar(token[i])
    THEN HalfDim + mod100(simpleHash(token))
    ELSE mod100(simpleHash(token))

\* The own keys of the object literal commonConcepts, in source order.
commonConcepts ==
    <<
       [eng |-> <<116, 105, 109, 101>>, zh |-> << <<202, 243, 8706, 200, 243, 165>>, <<202, 243, 8706>>, <<202, 243, 8226, 202, 250, 252>> >>],  \* 432: 'time'
       [eng |-> <<100, 97, 121>>, zh |-> << <<194, 167, 169>>, <<202, 243, 8226>>, <<202, 243, 8226, 194, 8800, 234>> >>],  \* 433: 'day'
       [eng |-> <<112, 101, 114, 115, 111, 110>>, zh |-> << <<8240, 8747, 8747>>, <<8240, 8747, 8747, 194, 235, 242>>, <<8240, 8719, 8482, 8240, 8747, 8747>> >>],  \* 434: 'person'
       [eng |-> <<119, 111, 114, 107>>, zh |-> << <<194, 8721, 8226, 8240, 937, 250>>, <<203, 197, 229, 8240, 8719, 246>>, <<8240, 170, 170, 194, 228, 176>> >>],  \* 435: 'work'
       [eng |-> <<98, 111, 111, 107>>, zh |-> << <<8240, 960, 182>>, <<8240, 960, 182, 193, 177, 231>> >>],  \* 436: 'book'
       [eng |-> <<102, 111, 111, 100>>, zh |-> << <<200, 163, 252, 193, 226, 169>>, <<200, 163, 252, 194, 236, 197>>, <<200, 167, 234>> >>],  \* 437: 'food'
       [eng |-> <<119, 97, 116, 101, 114>>, zh |-> << <<202, 8734, 165>>, <<202, 8734, 165, 194, 224, 220>> >>],  \* 438: 'water'
       [eng |-> <<104, 111, 117, 115, 101>>, zh |-> << <<202, 224, 248, 194, 8800, 234>>, <<194, 198, 8706>>, <<8240, 937, 232, 194, 198, 214>> >>],  \* 439: 'house'
       [eng |-> <<99, 111, 109, 112, 117, 116, 101, 114>>, zh |-> << <<193, 238, 181, 203, 209, 235>>, <<203, 198, 176, 193, 198, 243, 202, 250, 8747>> >>],  \* 440: 'computer'
       [eng |-> <<102, 114, 105, 101, 110, 100>>, zh |-> << <<202, 250, 227, 194, 232, 227>>, <<8240, 186, 244, 8240, 186, 165>> >>],  \* 441: 'friend'
       [eng |-> <<102, 97, 109, 105, 108, 121>>, zh |-> << <<194, 198, 8706, 194, 8747, 8800>>, <<194, 198, 8706, 8240, 8747, 8747>> >>],  \* 442: 'family'
       [eng |-> <<109, 111, 110, 101, 121>>, zh |-> << <<200, 237, 177>>, <<200, 225, 235, 200, 237, 177>>, <<203, 181, 209, 200, 225, 235>> >>],  \* 443: 'money'
       [eng |-> <<115, 99, 104, 111, 111, 108>>, zh |-> << <<194, 8800, 182, 202, 8224, 176>>, <<202, 8224, 176, 194, 245, 8800>> >>],  \* 444: 'school'
       [eng |-> <<98, 117, 115, 105, 110, 101, 115, 115>>, zh |-> << <<194, 239, 220, 8240, 8719, 246>>, <<193, 238, 252, 202, 209, 232>>, <<8240, 186, 197, 8240, 8719, 246>> >>],  \* 445: 'business'
       [eng |-> <<99, 105, 116, 121>>, zh |-> << <<194, 252, 233, 194, 8719, 199>>, <<194, 8719, 199>> >>],  \* 446: 'city'
       [eng |-> <<99, 111, 117, 110, 116, 114, 121>>, zh |-> << <<194, 245, 937, 194, 198, 8706>>, <<194, 245, 937>> >>],  \* 447: 'country'
       [eng |-> <<119, 111, 114, 108, 100>>, zh |-> << <<8240, 8719, 241, 193, 239, 229>>, <<194, 214, 174, 193, 234, 201>> >>],  \* 448: 'world'
       [eng |-> <<104, 101, 97, 108, 116, 104>>, zh |-> << <<194, 197, 8226, 194, 8747, 8721>>, <<8240, 248, 249, 194, 197, 8226>> >>],  \* 449: 'health'
       [eng |-> <<104, 105, 115, 116, 111, 114, 121>>, zh |-> << <<194, 233, 220, 194, 232, 8804>>, <<194, 232, 8804>> >>],  \* 450: 'history'
       [eng |-> <<102, 117, 116, 117, 114, 101>>, zh |-> << <<202, 250, 8482, 202, 249, 8226>>, <<194, 8734, 220, 202, 249, 8226>> >>],  \* 451: 'future'
       [eng |-> <<116, 101, 99, 104, 110, 111, 108, 111, 103, 121>>, zh |-> << <<202, 228, 196, 202, 250, 216>>, <<193, 223, 235, 202, 228, 196>> >>],  \* 452: 'technology'
       [eng |-> <<115, 99, 105, 101, 110, 99, 101>>, zh |-> << <<193, 223, 235, 194, 8800, 182>>, <<194, 8800, 182, 193, 223, 235>> >>],  \* 453: 'science'
       [eng |-> <<97, 114, 116>>, zh |-> << <<203, 226, 8747, 202, 250, 216>>, <<193, 230, 233, 202, 250, 216>> >>],  \* 454: 'art'
       [eng |-> <<109, 117, 115, 105, 99>>, zh |-> << <<200, 252, 8805, 8240, 960, 234>>, <<202, 245, 8804>> >>],  \* 455: 'music'
       [eng |-> <<102, 105, 108, 109>>, zh |-> << <<193, 238, 181, 194, 937, 177>>, <<194, 937, 177, 193, 226, 225>> >>],  \* 456: 'film'
       [eng |-> <<108, 111, 118, 101>>, zh |-> << <<193, 224, 177>>, <<193, 224, 177, 202, 201, 214>> >>],  \* 457: 'love'
       [eng |-> <<112, 114, 111, 98, 108, 101, 109>>, zh |-> << <<200, 243, 198, 200, 162, 242>>, <<200, 246, 230, 200, 162, 242>> >>],  \* 458: 'problem'
       [eng |-> <<115, 111, 108, 117, 116, 105, 111, 110>>, zh |-> << <<203, 223, 163, 194, 220, 8805, 202, 241, 960, 202, 176, 224>>, <<203, 223, 163, 194, 220, 8805>>, <<202, 241, 960, 202, 176, 224>> >>],  \* 459: 'solution'
       [eng |-> <<105, 100, 101, 97>>, zh |-> << <<202, 201, 8805, 202, 8805, 239>>, <<8240, 8719, 170, 202, 209, 232>>, <<202, 182, 199, 194, 248, 181>> >>],  \* 460: 'idea'
       [eng |-> <<105, 110, 102, 111, 114, 109, 97, 116, 105, 111, 110>>, zh |-> << <<8240, 248, 176, 202, 197, 216>>, <<203, 181, 209, 203, 198, 216>> >>]  \* 461: 'information'
    >>

\* What stands for a value that is a string where a count or a weight is
\* expected; adding to it or adding it gives such a value again.
NotANumber == -1

Plus(x, y) == IF x = NotANumber \/ y = NotANumber THEN NotANumber ELSE x + y

\* Names an object literal inherits from Object.prototype that a token
\* (lower-case letters and digits only) can equal.
InheritedKey == << 99, 111, 110, 115, 116, 114, 117, 99, 116, 111, 114 >>

\* commonConcepts[token]: the listed equivalents (own), undefined, or the
\* inherited function, which is truthy and not iterable.
conceptLookup(token) ==
    IF \E i \in DOMAIN commonConcepts : commonConcepts[i].eng = token
    THEN [kind |-> "own",
          zh |-> commonConcepts[CHOOSE i \in DOMAIN commonConcepts :
                                    commonConcepts[i].eng = token].zh]
    ELSE IF token = InheritedKey THEN [kind |-> "inherited", zh |-> << >>]
    ELSE [kind |-> "undefined", zh |-> << >>]

\* chineseToEnglish[token]: the English terms listing token, in table order.
chineseToEnglish(token) ==
    LET rows == SelectSeq(commonConcepts, LAMBDA r : token \in Range(r.zh))
    IN  [i \in DOMAIN rows |-> rows[i].eng]

\* tokenFreq as lines 371-377 build it: the distinct tokens and their counts.
tokensOf(text) == latinWords(text) \o cjkChars(text)

\* tokenFreq is a plain object: at line 376 tokenFreq[token] of a token that
\* names an inherited property is a function, and function + 1 is a string.
tokenFreq(text) ==
    LET toks == tokensOf(text)
    IN  [t \in Range(toks) |->
            IF t = InheritedKey THEN NotANumber
            ELSE Cardinality({ i \in DOMAIN toks : toks[i] = t })]

\* Twice what addCrossLanguageFeatures adds to slot `slot` (0-based).
crossWeight(freq, slot) ==
    LET isChinese(t) == \E i \in DOMAIN t : isChineseChar(t[i])
        fromZh(t) ==
            LET engs == chineseToEnglish(t)
            IN  freq[t] * Cardinality({ i \in DOMAIN engs : mod100(simpleHash(engs[i])) = slot })
        fromEng(t) ==
            LET zhs == conceptLookup(t).zh
            IN  freq[t] * Cardinality({ i \in DOMAIN zhs :
                                        HalfDim + mod100(simpleHash(zhs[i])) = slot })
        one(t) == IF isChinese(t) /\ chineseToEnglish(t) # << >> THEN fromZh(t)
                  ELSE IF ~isChinese(t) THEN fromEng(t)
                  ELSE 0
        RECURSIVE total(_)
        total(S) == IF S = {} THEN 0
                    ELSE LET t == CHOOSE x \in S : TRUE
                         IN  one(t) + total(S \ {t})
    IN  total(DOMAIN freq)

\* for...of over commonConcepts[token] throws when the lookup is the
\* inherited function (lines 486-488).
crossThrows(freq) ==
    \E t \in DOMAIN freq :
        /\ ~(\E i \in DOMAIN t : isChineseChar(t[i]))
        /\ conceptLookup(t).kind = "inherited"

\* Twice the token counts of lines 383-399 in slot `slot` (0-based).
ownWeight(freq, slot) ==
    LET RECURSIVE total(_)
        total(S) == IF S = {} THEN 0
                    ELSE LET t == CHOOSE x \in S : TRUE
                         IN  (IF slotOf(t) = slot THEN 2 * freq[t] ELSE 0) + total(S \ {t})
    IN  total(DOMAIN freq)

SquareSum(d) == SumSeq([i \in DOMAIN d |-> d[i] * d[i]])

\* Lines 405-411: divide by the magnitude when it is positive.
normalize(d) ==
    LET m2 == SquareSum(d)
    IN  [dir |-> d, mag2 |-> IF m2 > 0 THEN m2 ELSE 1]

getLocalEmbedding(text) ==
    LET freq == tokenFreq(text)
    IN  IF crossThrows(freq) THEN Throw
        ELSE Some(normalize([i \in 1..LocalDim |->
                               ownWeight(freq, i - 1) + crossWeight(freq, i - 1)]))

\* getLocalEmbedding statement by statement, on the array `vector`.

\* A key that is an array index ("0", "7", "42"; not "007"): Object.keys
\* lists these first, in ascending order.  Tokens of the model have at most
\* nine characters.
isArrayIndex(t) ==
    /\ t # << >>
    /\ \A i \in DOMAIN t : t[i] >= 48 /\ t[i] <= 57
    /\ Len(t) = 1 \/ t[1] # 48

RECURSIVE indexValue(_, _)
indexValue(t, acc) ==
    IF t = << >> THEN acc ELSE indexValue(Tail(t), 10 * acc + (Head(t) - 48))

RECURSIVE distinct(_, _)
distinct(toks, seen) ==
    IF toks = << >> THEN << >>
    ELSE IF Head(toks) \in seen THEN distinct(Tail(toks), seen)
    ELSE << Head(toks) >> \o distinct(Tail(toks), seen \cup {Head(toks)})

RECURSIVE ascending(_)
ascending(S) ==
    IF S = {} THEN << >>
    ELSE LET t == CHOOSE x \in S : \A y \in S : indexValue(x, 0) <= indexValue(y, 0)
         IN  << t >> \o ascending(S \ {t})

\* Object.keys(tokenFreq), lines 383 and 478: array indexes ascending, then
\* the other keys in the order they were first assigned (lines 375-377).
ObjectKeys(text) ==
    LET d == distinct(tokensOf(text), {})
    IN  ascending({ t \in Range(d) : isArrayIndex(t) })
            \o SelectSeq(d, LAMBDA t : ~isArrayIndex(t))

\* vector[idx] += w on a JavaScript array of numbers (idx 0-based): past the
\* end the array grows; a negative idx names a property, not an element.
ArrayAdd(v, idx, w) ==
    IF idx >= 0 /\ idx < Len(v) THEN [v EXCEPT ![idx + 1] = Plus(@, w)]
    ELSE IF idx >= Len(v)
    THEN [i \in 1..(idx + 1) |-> IF i <= Len(v) THEN v[i] ELSE IF i = idx + 1 THEN w ELSE 0]
    ELSE v

\* Lines 383-399: each token's count at its slot.  Weights are in halves.
RECURSIVE ownLoop(_, _, _)
ownLoop(v, keys, freq) ==
    IF keys = << >> THEN v
    ELSE ownLoop(ArrayAdd(v, slotOf(Head(keys)), Plus(freq[Head(keys)], freq[Head(keys)])),
                 Tail(keys), freq)

\* The inner loops of lines 481-485 and 488-492: w halves at each slot.
RECURSIVE addAt(_, _, _)
addAt(v, slots, w) ==
    IF slots = << >> THEN v ELSE addAt(ArrayAdd(v, Head(slots), w), Tail(slots), w)

\* The loop of lines 478-494; it ends when for...of throws.
RECURSIVE crossLoop(_, _, _)
crossLoop(v, keys, freq) ==
    IF keys = << >> THEN [vector |-> v, thrown |-> FALSE]
    ELSE LET t == Head(keys)
             isChinese == \E i \in DOMAIN t : isChineseChar(t[i])
             engs == chineseToEnglish(t)
             found == conceptLookup(t)
         IN  IF isChinese /\ engs # << >>
             THEN crossLoop(addAt(v, [i \in DOMAIN engs |-> mod100(simpleHash(engs[i]))],
                                  freq[t]),
                            Tail(keys), freq)
             ELSE IF ~isChinese /\ found.kind = "inherited"
             THEN [vector |-> v, thrown |-> TRUE]
             ELSE IF ~isChinese /\ found.kind = "own"
             THEN crossLoop(addAt(v, [i \in DOMAIN found.zh |->
                                         HalfDim + mod100(simpleHash(found.zh[i]))],
                                  freq[t]),
                            Tail(keys), freq)
             ELSE crossLoop(v, Tail(keys), freq)

\* ------------------------------------------------------------- similarity

ZeroScore == [num |-> 0, den2 |-> 1]

\* A cosine that divides whatever the norms are.
cosineSimilarityUnguarded(a, b) ==
    IF Len(a.dir) # Len(b.dir) THEN ZeroScore
    ELSE [num |-> SumSeq([i \in DOMAIN a.dir |-> a.dir[i] * b.dir[i]]),
          den2 |-> SquareSum(a.dir) * SquareSum(b.dir)]

\* Lines 520-536.  A score of den2 = 0 would be a division by zero.
cosineSimilarity(a, b) ==
    IF Len(a.dir) # Len(b.dir) THEN ZeroScore
    ELSE LET dot == SumSeq([i \in DOMAIN a.dir |-> a.dir[i] * b.dir[i]])
             nA  == SquareSum(a.dir)
             nB  == SquareSum(b.dir)
         IN  IF nA = 0 \/ nB = 0 THEN ZeroScore
             ELSE [num |-> dot, den2 |-> nA * nB]

\* x >= y for scores.
ScoreGeq(x, y) ==
    IF x.num >= 0 /\ y.num < 0 THEN TRUE
    ELSE IF x.num < 0 /\ y.num >= 0 THEN FALSE
    ELSE IF x.num >= 0 THEN x.num * x.num * y.den2 >= y.num * y.num * x.den2
    ELSE x.num * x.num * y.den2 <= y.num * y.num * x.den2

ScoreGt(x, y) == ~ScoreGeq(y, x)

\* The slider's floor, in twentieths (step 0.05), as a score.
FloorScore(f) == [num |-> f, den2 |-> 400]

\* ------------------------------------------------------------ the vault

\* "a.md", "b.md", "n/c.md"
PathA == << 97, 46, 109, 100 >>
PathB == << 98, 46, 109, 100 >>
PathC == << 110, 47, 99, 46, 109, 100 >>

\* The order in which getMarkdownFiles lists the vault.
PathOrder == << PathA, PathB, PathC >>
Paths == Range(PathOrder)

\* "the cat sat", "the dog sat", "quantum", "constructor"
TextCat == << 116, 104, 101, 32, 99, 97, 116, 32, 115, 97, 116 >>
TextDog == << 116, 104, 101, 32, 100, 111, 103, 32, 115, 97, 116 >>
TextQuantum == << 113, 117, 97, 110, 116, 117, 109 >>
TextCtor == << 99, 111, 110, 115, 116, 114, 117, 99, 116, 111, 114 >>
Texts == { TextCat, TextDog, TextQuantum, TextCtor }

\* What an edit of the model writes.
EditTexts == { TextDog, TextCtor }

\* What the embedding service answers each text with: vectors of its own
\* length.
RemoteVectorOf ==
    [t \in Texts |-> IF t = TextCat THEN << 1, 0, 0 >>
                     ELSE IF t = TextDog THEN << 1, 1, 0 >>
                     ELSE << 0, 1, 0 >>]

\* "", " ", "k"
KeyEmpty == << >>
KeyBlank == << 32 >>
KeyValid == << 107 >>
ApiKeys == { KeyEmpty, KeyBlank, KeyValid }

\* The folder "n"
FolderN == << 110 >>
IgnoreChoices == { << >>, << FolderN >> }

\* Floors of the slider (0 to 1 in steps of 0.05), in twentieths.
Floors == { 0, 10, 14, 20 }

DayMs == 24 * 60 * 60 * 1000

\* Bounds of the model.
MaxCap == 2
MaxVecLen == 2
MaxExpDays == 2
MaxStarts == 2
MaxEnv == 1
MaxSets == 1
MaxClears == 1
MaxTasks == 1
MaxLoads == 1
MaxFails == 1

Inv == { 1, 2 }
TaskIds == 1..MaxTasks

\* The number arrays cosineSimilarity is called with in SpecCosine, as
\* vectors not scaled.
Components == -1..1
Vectors ==
    { [dir |-> d, mag2 |-> 1] :
          d \in UNION { [1..n -> Components] : n \in 0..MaxVecLen } }

\* The words of the texts getLocalEmbedding is called with in SpecLocal:
\* "time" (in the table), "constructor", "4nafjwl" (its hash wraps to
\* -2^31), "cat", "7", U+65F6, U+3042, and the table's second equivalent of "time".
Words ==
    { << 116, 105, 109, 101 >>, TextCtor, << 52, 110, 97, 102, 106, 119, 108 >>,
      << 99, 97, 116 >>, << 55 >>, << 26102 >>, << 12354 >>, << 202, 243, 8706 >> }

MaxWords == 2

\* Up to MaxWords words with a space between them.
RECURSIVE join(_)
join(ws) ==
    IF ws = << >> THEN << >>
    ELSE IF Len(ws) = 1 THEN ws[1]
    ELSE ws[1] \o << 32 >> \o join(Tail(ws))

LocalTexts == { join(ws) : ws \in UNION { [1..n -> Words] : n \in 0..MaxWords } }

\* `own` is history: the vector as line 399 left it.
NoLocal ==
    [pc |-> "idle", text |-> << >>, vector |-> << >>, own |-> << >>, result |-> Absent]

NoCall == [a |-> [dir |-> << >>, mag2 |-> 1], b |-> [dir |-> << >>, mag2 |-> 1],
           result |-> << >>]

VARIABLES
    vault,       \* path -> [mtime, content, gone]: the documents of the corpus
    now,         \* Date.now()
    settings,    \* this.settings
    embeddings,  \* this.embeddings: path -> [embedding, timestamp]
    inv,         \* the findSimilarNotes invocations in flight, by slot
    sidebar,     \* this.sidebar and what its view shows
    statusBar,   \* status bar items currently shown
    data,        \* the persisted record (data.json)
    tasks,       \* pending saveSettings / saveEmbeddingCache calls of the settings tab
    used,        \* how much of each bound has been used; history: `saved`, the
                 \* cache whose snapshot saveEmbeddingCache wrote last into data,
                 \* and what the last Clear Cache found
    plugin,      \* "loaded" between onload and onunload
    call,        \* a call of cosineSimilarity: its arguments and what it returned
    local        \* a call of getLocalEmbedding: its argument, how far it is, its vector

vars == << vault, now, settings, embeddings, inv, sidebar, statusBar, data, tasks, used,
           plugin, call, local >>

\* ----------------------------------------------------------- Map and object

\* Map.prototype.set
MapSet(m, k, v) == [x \in (DOMAIN m) \cup {k} |-> IF x = k THEN v ELSE m[x]]

EmptyMap == [x \in {} |-> 0]

\* Object.fromEntries(this.embeddings): the object's own properties.
ObjectFromEntries(m) == { [key |-> k, value |-> m[k]] : k \in DOMAIN m }

\* new Map(Object.entries(obj))
MapFromEntries(obj) ==
    [k \in { e.key : e \in obj } |-> (CHOOSE e \in obj : e.key = k).value]

\* ---------------------------------------------------------------- settings

\* DEFAULT_SETTINGS, lines 16-23, with the optional fields a loaded record adds.
\* this.settings always has the six fields of the defaults; encryptedApiKey
\* and embeddings are there (Some) when the loaded record had them.
DEFAULT_SETTINGS ==
    [apiKey |-> KeyEmpty, numSimilarNotes |-> 5, minSimilarityScore |-> 14,
     ignoreFolders |-> << >>, cacheExpiration |-> 7, useGeminiEmbeddings |-> FALSE,
     encryptedApiKey |-> Absent, embeddings |-> Absent]

SettingsKeys == DOMAIN DEFAULT_SETTINGS
OptionalKeys == { "encryptedApiKey", "embeddings" }

\* data.json missing or empty: every property undefined.  In a persisted
\* record every property is optional.
NoData == [k \in SettingsKeys |-> Absent]

\* Object.assign({}, defaults, loaded)
Assign(defaults, loaded) ==
    [k \in SettingsKeys |->
        IF loaded[k] = Absent THEN defaults[k]
        ELSE IF k \in OptionalKeys THEN loaded[k] ELSE loaded[k][1]]

\* AES-GCM under the vault's key, lines 142-179: a text that decrypts to `key`.
encryptApiKey(key) == [valid |-> TRUE, cipher |-> key]

\* '*****', line 124: no ciphertext.
Placeholder == [valid |-> FALSE, cipher |-> << >>]

\* decryptApiKey, lines 182-220: '' when decryption fails.
decryptApiKey(enc) == IF enc.valid THEN enc.cipher ELSE << >>

\* loadSettings, lines 95-109.
loadSettings(loaded) ==
    LET merged == Assign(DEFAULT_SETTINGS, loaded)
    IN  IF loaded.encryptedApiKey # Absent
        THEN [merged EXCEPT !.apiKey = decryptApiKey(loaded.encryptedApiKey[1])]
        ELSE merged

\* String.prototype.trim on the keys of the model.
trim(str) == SelectSeq(str, LAMBDA c : c # 32)

\* String.prototype.startsWith
startsWith(str, prefix) ==
    /\ Len(prefix) <= Len(str)
    /\ \A i \in DOMAIN prefix : str[i] = prefix[i]

\* TFile.extension: what follows the last dot of the path.
extension(path) ==
    LET dots == { i \in DOMAIN path : path[i] = 46 }
    IN  IF dots = {} THEN << >>
        ELSE LET last == CHOOSE i \in dots : \A j \in dots : j <= i
             IN  SubSeq(path, last + 1, Len(path))

\* shouldIgnoreFile, lines 538-546.
shouldIgnoreFile(path) ==
    \/ extension(path) # << 109, 100 >>
    \/ \E j \in DOMAIN settings.ignoreFolders : startsWith(path, settings.ignoreFolders[j])

\* this.app.vault.getMarkdownFiles()
getMarkdownFiles == SelectSeq(PathOrder, LAMBDA p : ~vault[p].gone)

\* A sweep that also removes the entries exactly as old as the window.
cleanEmbeddingCacheAtWindow(m, s, t) ==
    LET expiration == s.cacheExpiration * DayMs
        expired == { k \in DOMAIN m : t - m[k].timestamp >= expiration }
    IN  [k \in (DOMAIN m) \ expired |-> m[k]]

\* cleanEmbeddingCache, lines 247-256.
cleanEmbeddingCache(m, s, t) ==
    LET expiration == s.cacheExpiration * DayMs
        expired == { k \in DOMAIN m : t - m[k].timestamp > expiration }
    IN  [k \in (DOMAIN m) \ expired |-> m[k]]

\* loadEmbeddingCache, lines 230-237, in a fresh instance (this.embeddings
\* is the empty Map of line 41) with settings s at time t.
loadEmbeddingCache(loaded, s, t) ==
    IF loaded.embeddings # Absent
    THEN cleanEmbeddingCache(MapFromEntries(loaded.embeddings[1]), s, t)
    ELSE EmptyMap

\* ------------------------------------------------------ findSimilarNotes

NoFile == << >>
NoFlush == [phase |-> "none", obj |-> {}, loaded |-> NoData, snapshot |-> EmptyMap]

\* An invocation slot at rest.  The last fields are history: log has one
\* entry per call of getNoteEmbedding (what it found in the cache, whether it
\* read the file, what it computed and returned), stored the cache writes,
\* S0 the settings at the start, sinceClear the rank of the invocation among
\* those started since the last Clear Cache (0 before any) and quietClear
\* whether no call of getNoteEmbedding was suspended at that clear; env0 and
\* envRanked count the changes of the vault before the start and before the
\* ranking, warm whether no cached entry was older than its file at the
\* start, clears0 how many times the cache had been cleared before the
\* start, auto whether the active-leaf-change handler started the
\* invocation, and prev is what the slot's previous invocation left.
NoPrev == [pc |-> "idle", currentFile |-> NoFile, topResults |-> << >>, env0 |-> 0,
           envRanked |-> 0]

IdleInv ==
    [pc |-> "idle", role |-> "query", currentFile |-> NoFile,
     currentEmbedding |-> Absent, files |-> << >>, k |-> 0, file |-> NoFile,
     content |-> << >>, similarityScores |-> << >>, topResults |-> << >>,
     branch |-> 0, timer |-> FALSE, flush |-> NoFlush,
     notices |-> {}, handed |-> FALSE, log |-> << >>, stored |-> << >>,
     fetches |-> 0, S0 |-> DEFAULT_SETTINGS, sinceClear |-> 0, quietClear |-> FALSE,
     env0 |-> 0, envRanked |-> 0, warm |-> FALSE, clears0 |-> 0, auto |-> FALSE,
     prev |-> NoPrev]

\* History: field f of the entry of the call of getNoteEmbedding under way.
Note(c, f, v) == [c EXCEPT !.I.log[Len(c.I.log)] = [@ EXCEPT ![f] = v]]

\* A lookup that serves whatever entry there is.
cacheHitIgnoringMtime(e, path) == path \in DOMAIN e

\* A lookup that serves only entries written after the file's last change.
cacheHitStrictlyNewer(e, path) ==
    /\ path \in DOMAIN e
    /\ vault[path].mtime < e[path].timestamp

\* getNoteEmbedding, lines 499-505: the cached entry is served.
cacheHit(e, path) ==
    /\ path \in DOMAIN e
    /\ vault[path].mtime <= e[path].timestamp

\* An insertion that puts an element before those of the same score.
RECURSIVE insertDescBeforeTies(_, _)
insertDescBeforeTies(sorted, x) ==
    IF sorted = << >> THEN << x >>
    ELSE IF ScoreGeq(x.score, Head(sorted).score) THEN << x >> \o sorted
    ELSE << Head(sorted) >> \o insertDescBeforeTies(Tail(sorted), x)

\* Array.prototype.sort with (a, b) => b.score - a.score: stable, descending.
RECURSIVE insertDesc(_, _)
insertDesc(sorted, x) ==
    IF sorted = << >> THEN << x >>
    ELSE IF ScoreGt(x.score, Head(sorted).score) THEN << x >> \o sorted
    ELSE << Head(sorted) >> \o insertDesc(Tail(sorted), x)

RECURSIVE sortDesc(_)
sortDesc(xs) ==
    IF xs = << >> THEN << >>
    ELSE insertDesc(sortDesc(SubSeq(xs, 1, Len(xs) - 1)), xs[Len(xs)])

\* Array.prototype.slice(0, n)
slice(xs, n) == SubSeq(xs, 1, IF n < Len(xs) THEN n ELSE Len(xs))

\* A sidebar that is given a list only when the list is not empty.
updateResultsIfAny(c) ==
    IF c.I.topResults = << >> THEN c
    ELSE [c EXCEPT !.sb.shown = Some([file |-> c.I.currentFile, results |-> c.I.topResults]),
                   !.I.handed = TRUE]

\* SimilarNotesSidebar.updateResults, lines 667-726, on this.sidebar.
updateResults(c) ==
    [c EXCEPT !.sb.shown = Some([file |-> c.I.currentFile, results |-> c.I.topResults]),
              !.I.handed = TRUE]

\* A save of the cache after which the function does not return.
finishTryAndStay(c) ==
    [c EXCEPT !.I.flush = [phase |-> "load", obj |-> ObjectFromEntries(c.e),
                           loaded |-> NoData, snapshot |-> c.e]]

\* A return that does not save the cache.
finishTryWithoutFlush(c) == [c EXCEPT !.I.pc = "done"]

\* this.saveEmbeddingCache() of line 613, not awaited: the snapshot is taken
\* now, loadData is pending.  Then the finally block; the function returns.
finishTry(c) ==
    [c EXCEPT !.I.flush = [phase |-> "load", obj |-> ObjectFromEntries(c.e),
                           loaded |-> NoData, snapshot |-> c.e],
              !.I.pc = "done"]

\* A catch block that tells the user nothing.
catchErrorSilently(c) == [c EXCEPT !.I.pc = "failed"]

\* Lines 615-621: the catch block.
catchError(c) ==
    [c EXCEPT !.I.pc = "failed", !.I.notices = @ \cup {"error"}]

\* Lines 588-610 up to the first suspension.
rankAndShow(c) ==
    LET sorted == sortDesc(c.I.similarityScores)
        top    == slice(sorted, settings.numSimilarNotes)
        c1     == [c EXCEPT !.I.similarityScores = sorted, !.I.topResults = top,
                            !.I.envRanked = used.env]
    IN  IF c.sb.state # "none"
        THEN IF c.sb.state # "open"
             THEN [c1 EXCEPT !.I.pc = "activate", !.I.branch = 1]
             ELSE finishTry(updateResults(c1))
        ELSE [c1 EXCEPT !.I.pc = "activate", !.I.branch = 2]

RECURSIVE candidateLoop(_)
RECURSIVE getNoteEmbedding(_)
RECURSIVE resolved(_, _)

\* Lines 566-586 after getNoteEmbedding returned `v` for c.I.file.
resolved(c, v) ==
    IF c.I.role = "query"
    THEN candidateLoop([c EXCEPT !.I.currentEmbedding = Some(v),
                                 !.I.files = getMarkdownFiles,
                                 !.I.k = 1, !.I.role = "candidate"])
    ELSE LET similarity == cosineSimilarity(c.I.currentEmbedding[1], v)
             keep == ScoreGeq(similarity, FloorScore(settings.minSimilarityScore))
         IN  candidateLoop(
               [c EXCEPT !.I.similarityScores =
                             IF keep THEN Append(@, [file |-> c.I.file, score |-> similarity])
                             ELSE @,
                         !.I.k = @ + 1])

\* getNoteEmbedding, lines 497-508, up to the read of the file.
getNoteEmbedding(c) ==
    LET path == c.I.file
        had  == path \in DOMAIN c.e
        entry == [file |-> path, had |-> had,
                  timestamp |-> IF had THEN c.e[path].timestamp ELSE 0,
                  mtime |-> vault[path].mtime,
                  cached |-> IF had THEN Some(c.e[path].embedding) ELSE Absent,
                  read |-> FALSE, content |-> Absent, remote |-> "none",
                  computed |-> Absent, returned |-> Absent]
        c1 == [c EXCEPT !.I.log = Append(@, entry)]
    IN  IF cacheHit(c.e, path)
        THEN resolved(Note(c1, "returned", Some(c.e[path].embedding)), c.e[path].embedding)
        ELSE [c1 EXCEPT !.I.pc = "read"]

\* The for loop of lines 574-586 from index k to its next suspension.
candidateLoop(c) ==
    IF c.I.k > Len(c.I.files) THEN rankAndShow(c)
    ELSE LET f == c.I.files[c.I.k]
         IN  IF f = c.I.currentFile \/ shouldIgnoreFile(f)
             THEN candidateLoop([c EXCEPT !.I.k = @ + 1])
             ELSE getNoteEmbedding([c EXCEPT !.I.file = f])

\* A cache write that starts from an empty Map.
cacheStoreAlone(c, v) ==
    LET c1 == Note(Note(c, "computed", Some(v)), "returned", Some(v))
    IN  resolved([c1 EXCEPT !.e = MapSet(EmptyMap, c.I.file,
                                         [embedding |-> v, timestamp |-> now]),
                            !.I.stored = Append(@, [file |-> c.I.file, embedding |-> v,
                                                    timestamp |-> now])],
                 v)

\* A cache write that keeps the entry a file already has.
cacheStoreIfAbsent(c, v) ==
    LET c1 == Note(Note(c, "computed", Some(v)), "returned", Some(v))
    IN  resolved([c1 EXCEPT !.e = IF c.I.file \in DOMAIN @ THEN @
                                  ELSE MapSet(@, c.I.file,
                                              [embedding |-> v, timestamp |-> now]),
                            !.I.stored = Append(@, [file |-> c.I.file, embedding |-> v,
                                                    timestamp |-> now])],
                 v)

\* Lines 511-517: the cache write, then back in the caller.
cacheStore(c, v) ==
    LET c1 == Note(Note(c, "computed", Some(v)), "returned", Some(v))
    IN  resolved([c1 EXCEPT !.e = MapSet(@, c.I.file, [embedding |-> v, timestamp |-> now]),
                            !.I.stored = Append(@, [file |-> c.I.file, embedding |-> v,
                                                    timestamp |-> now])],
                 v)

\* getLocalEmbedding on each text a note of the model can hold, computed once.
LocalEmbeddingOf == [t \in Texts |-> getLocalEmbedding(t)]

\* A local embedder whose vector depends on what the cache holds.
embedLocallyByCache(c, text) ==
    LET v == LocalEmbeddingOf[IF c.e = EmptyMap THEN text ELSE TextQuantum]
    IN  IF v = Throw THEN catchError(c) ELSE cacheStore(c, v[1])

\* getLocalEmbedding from getEmbedding (lines 268 and 272); what it throws
\* reaches the catch block of findSimilarNotes.
embedLocally(c, text) ==
    LET v == LocalEmbeddingOf[text]
    IN  IF v = Throw THEN catchError(c) ELSE cacheStore(c, v[1])

\* A fallback whose vector is returned and not cached.
fallBackUncached(c, text) ==
    LET v == LocalEmbeddingOf[text]
        c1 == [c EXCEPT !.I.notices = @ \cup {"fallback"}]
    IN  IF v = Throw THEN catchError(c1)
        ELSE resolved(Note(Note(c1, "computed", v), "returned", v), v[1])

\* getEmbedding's catch block, lines 264-269.
fallBack(c, text) ==
    embedLocally([c EXCEPT !.I.notices = @ \cup {"fallback"}], text)

\* A getEmbedding that asks the service whenever there is a key.
getEmbeddingWheneverKeyed(c, text) ==
    IF settings.apiKey # KeyEmpty
    THEN IF trim(settings.apiKey) = KeyEmpty
         THEN fallBack([c EXCEPT !.I.notices = @ \cup {"missingKey"}], text)
         ELSE [Note(c, "remote", "pending") EXCEPT !.I.pc = "fetch", !.I.content = text,
                                                   !.bar = @ + 1, !.I.fetches = @ + 1]
    ELSE embedLocally(c, text)

\* getEmbedding, lines 259-274, and getGeminiEmbedding up to fetch (277-320).
getEmbedding(c, text) ==
    IF settings.useGeminiEmbeddings /\ settings.apiKey # KeyEmpty
    THEN IF trim(settings.apiKey) = KeyEmpty
         THEN fallBack([c EXCEPT !.I.notices = @ \cup {"missingKey"}], text)
         ELSE [Note(c, "remote", "pending") EXCEPT !.I.pc = "fetch", !.I.content = text,
                                                   !.bar = @ + 1, !.I.fetches = @ + 1]
    ELSE embedLocally(c, text)

\* A client that sends the request again when it failed.
afterFetchRetrying(c, outcome) ==
    IF outcome.kind = "ok"
    THEN cacheStore([Note(c, "remote", "ok") EXCEPT !.bar = @ - 1],
                    [dir |-> RemoteVectorOf[c.I.content], mag2 |-> 1])
    ELSE [Note(c, "remote", outcome.kind) EXCEPT !.I.fetches = @ + 1]

\* A client that returns whatever a success response holds.
afterFetchTrusting(c, outcome) ==
    LET c1 == Note(c, "remote", outcome.kind)
    IN  CASE outcome.kind = "network" -> fallBack(c1, c.I.content)
          [] outcome.kind = "status" ->
                fallBack([c1 EXCEPT !.bar = @ - 1, !.I.notices = @ \cup {"apiError"}],
                         c.I.content)
          [] outcome.kind \in {"format", "ok"} ->
                cacheStore([c1 EXCEPT !.bar = @ - 1],
                           [dir |-> RemoteVectorOf[c.I.content], mag2 |-> 1])

\* The rest of getGeminiEmbedding once fetch settled, lines 322-354.
afterFetch(c, outcome) ==
    LET c1 == Note(c, "remote", outcome.kind)
    IN  CASE outcome.kind = "network" -> fallBack(c1, c.I.content)
          [] outcome.kind = "status" ->
                fallBack([c1 EXCEPT !.bar = @ - 1, !.I.notices = @ \cup {"apiError"}],
                         c.I.content)
          [] outcome.kind = "format" -> fallBack([c1 EXCEPT !.bar = @ - 1], c.I.content)
          [] outcome.kind = "ok" ->
                cacheStore([c1 EXCEPT !.bar = @ - 1],
                           [dir |-> RemoteVectorOf[c.I.content], mag2 |-> 1])

\* How fetch can settle: rejected, answered with an error status, answered
\* with a body of another shape, answered with the vector.
FetchOutcomes == { [kind |-> k] : k \in {"network", "status", "format", "ok"} }

\* The part of the state one synchronous run of invocation i works on.
Ctx(i) == [e |-> embeddings, I |-> inv[i], sb |-> sidebar, bar |-> statusBar]

Commit(i, c) ==
    /\ embeddings' = c.e
    /\ inv' = [inv EXCEPT ![i] = c.I]
    /\ sidebar' = c.sb
    /\ statusBar' = c.bar

\* ----------------------------------------------------------------- actions

SlotFree(i) ==
    /\ inv[i].pc \in {"idle", "done", "failed"}
    /\ inv[i].flush.phase = "none"
    /\ ~inv[i].timer

\* findSimilarNotes, lines 548-566, on the active note f, up to its first
\* suspension; auto tells whether the active-leaf-change handler called it.
StartBy(i, f, auto) ==
    /\ plugin = "loaded"
    /\ used.starts < MaxStarts
    /\ SlotFree(i)
    /\ ~vault[f].gone
    /\ used' = [used EXCEPT !.starts = @ + 1,
                            !.sinceClear = IF used.clears > 0 THEN @ + 1 ELSE 0]
    /\ Commit(i, getNoteEmbedding(
                   [Ctx(i) EXCEPT !.I = [IdleInv EXCEPT !.pc = "start", !.currentFile = f,
                                                        !.file = f, !.S0 = settings,
                                                        !.sinceClear = used'.sinceClear,
                                                        !.quietClear = used.clearQuiet,
                                                        !.env0 = used.env,
                                                        !.clears0 = used.clears,
                                                        !.auto = auto,
                                                        !.warm =
                                                            \A p \in DOMAIN embeddings :
                                                                vault[p].mtime
                                                                    <= embeddings[p].timestamp,
                                                        !.prev = [k \in DOMAIN NoPrev |->
                                                                     inv[i][k]]]]))
    /\ UNCHANGED << local, call, vault, now, settings, data, tasks, plugin >>

\* The ribbon icon or the command (lines 46-63) calls findSimilarNotes.
Start(i, f) == StartBy(i, f, FALSE)

\* A handler that calls findSimilarNotes at every change of the active leaf.
ActiveLeafChangeAlways(i, f) == StartBy(i, f, TRUE)

\* The active-leaf-change handler of lines 78-85 when the Markdown view of the
\* note f becomes active: it calls findSimilarNotes when this.sidebar is set
\* and its isVisible is true, and does nothing otherwise.
ActiveLeafChange(i, f) ==
    /\ sidebar.state = "open"
    /\ StartBy(i, f, TRUE)

\* this.app.vault.read(file) settles (line 508); it rejects when the file has
\* vanished.
ReadDone(i) ==
    /\ inv[i].pc = "read"
    /\ LET c == Note(Ctx(i), "read", TRUE)
           text == vault[inv[i].file].content
       IN  Commit(i, IF vault[inv[i].file].gone
                     THEN catchError(c)
                     ELSE getEmbedding(Note(c, "content", Some(text)), text))
    /\ UNCHANGED << local, call, vault, now, settings, data, tasks, used, plugin >>

\* fetch settles (line 314).
FetchDone(i, outcome) ==
    /\ inv[i].pc = "fetch"
    /\ outcome.kind # "ok" => used.fails < MaxFails
    /\ Commit(i, afterFetch(Ctx(i), outcome))
    /\ used' = [used EXCEPT !.fails = @ + IF outcome.kind # "ok" THEN 1 ELSE 0]
    /\ UNCHANGED << local, call, vault, now, settings, data, tasks, plugin >>

\* activateSidebar's setViewState settles (lines 634-641): the view is built
\* by the factory of lines 70-74; then lines 600 or 605-613.
ActivateDone(i) ==
    /\ inv[i].pc = "activate"
    /\ LET c == [Ctx(i) EXCEPT !.sb = [state |-> "open", shown |-> Absent]]
       IN  Commit(i, IF inv[i].branch = 1
                     THEN finishTry(updateResults(c))
                     ELSE finishTry([c EXCEPT !.I.timer = TRUE]))
    /\ UNCHANGED << local, call, vault, now, settings, data, tasks, used, plugin >>

\* A callback that hands nothing over.
TimerFireLost(i) ==
    /\ inv[i].timer
    /\ Commit(i, [Ctx(i) EXCEPT !.I.timer = FALSE])
    /\ UNCHANGED << local, call, vault, now, settings, data, tasks, used, plugin >>

\* The setTimeout callback of lines 605-609.
TimerFire(i) ==
    /\ inv[i].timer
    /\ LET c == [Ctx(i) EXCEPT !.I.timer = FALSE]
       IN  Commit(i, IF sidebar.state # "none" THEN updateResults(c) ELSE c)
    /\ UNCHANGED << local, call, vault, now, settings, data, tasks, used, plugin >>

\* A save that writes back the record it read.
saveEmbeddingCacheRecordAsRead(loaded, obj) == loaded

\* saveEmbeddingCache, lines 239-245: what saveData is given.
saveEmbeddingCacheRecord(loaded, obj) == [loaded EXCEPT !.embeddings = Some(obj)]

\* saveEmbeddingCache of line 613: loadData settles.
FlushLoaded(i) ==
    /\ inv[i].flush.phase = "load"
    /\ inv' = [inv EXCEPT ![i].flush.phase = "save", ![i].flush.loaded = data]
    /\ UNCHANGED << local, call, vault, now, settings, embeddings, sidebar, statusBar, data, tasks, used,
                    plugin >>

\* saveEmbeddingCache of line 613: saveData settles.
FlushSaved(i) ==
    /\ inv[i].flush.phase = "save"
    /\ data' = saveEmbeddingCacheRecord(inv[i].flush.loaded, inv[i].flush.obj)
    /\ used' = [used EXCEPT !.saved = Some(inv[i].flush.snapshot)]
    /\ inv' = [inv EXCEPT ![i].flush = NoFlush]
    /\ UNCHANGED << local, call, vault, now, settings, embeddings, sidebar, statusBar, tasks, plugin >>

\* saveEmbeddingCache of line 613: loadData or saveData rejects.  Nothing
\* awaits or catches the promise of line 613; the record is not written.
FlushFail(i) ==
    /\ inv[i].flush.phase \in {"load", "save"}
    /\ used.fails < MaxFails
    /\ used' = [used EXCEPT !.fails = @ + 1]
    /\ inv' = [inv EXCEPT ![i].flush = NoFlush]
    /\ UNCHANGED << local, call, vault, now, settings, embeddings, sidebar, statusBar, data, tasks,
                    plugin >>

\* The user closes the sidebar: onClose, lines 739-742.
CloseSidebar ==
    /\ sidebar.state = "open"
    /\ sidebar' = [sidebar EXCEPT !.state = "closed"]
    /\ UNCHANGED << local, call, vault, now, settings, embeddings, inv, statusBar, data, tasks, used, plugin >>

\* The note is edited, dt milliseconds after the last event: new content,
\* modified at that time.
EditFile(p, text, dt) ==
    /\ used.env < MaxEnv
    /\ ~vault[p].gone
    /\ text # vault[p].content
    /\ now' = now + dt
    /\ vault' = [vault EXCEPT ![p].content = text, ![p].mtime = now']
    /\ used' = [used EXCEPT !.env = @ + 1]
    /\ UNCHANGED << local, call, settings, embeddings, inv, sidebar, statusBar, data, tasks, plugin >>

\* Time passes in a running session: Date.now() is dt milliseconds later.
Tick(dt) ==
    /\ plugin = "loaded"
    /\ used.env < MaxEnv
    /\ now' = now + dt
    /\ used' = [used EXCEPT !.env = @ + 1]
    /\ UNCHANGED << local, call, vault, settings, embeddings, inv, sidebar, statusBar, data, tasks,
                    plugin >>

\* The note is deleted.
DeleteFile(p) ==
    /\ used.env < MaxEnv
    /\ ~vault[p].gone
    /\ vault' = [vault EXCEPT ![p].gone = TRUE]
    /\ used' = [used EXCEPT !.env = @ + 1]
    /\ UNCHANGED << local, call, now, settings, embeddings, inv, sidebar, statusBar, data, tasks, plugin >>

NoTask == [kind |-> "none", phase |-> "none", dataToSave |-> DEFAULT_SETTINGS, obj |-> {},
           loaded |-> NoData, snapshot |-> EmptyMap]

FreeTask(t) == tasks[t].kind = "none" /\ \A u \in TaskIds : u < t => tasks[u].kind # "none"

\* What the controls of the settings tab can set (lines 768-857).
SettingChoices ==
    { << "useGeminiEmbeddings", b >> : b \in BOOLEAN }
    \cup { << "apiKey", k >> : k \in ApiKeys }
    \cup { << "numSimilarNotes", n >> : n \in 1..MaxCap }
    \cup { << "minSimilarityScore", f >> : f \in Floors }
    \cup { << "ignoreFolders", g >> : g \in IgnoreChoices }
    \cup { << "cacheExpiration", d >> : d \in 1..MaxExpDays }

\* saveSettings, lines 111-139, up to its first suspension: the copy of the
\* settings is taken; encryption is pending when there is a key.
saveSettingsTask(s) ==
    [kind |-> "settings", phase |-> IF s.apiKey # KeyEmpty THEN "encrypt" ELSE "write",
     dataToSave |-> s, obj |-> {}, loaded |-> NoData, snapshot |-> EmptyMap]

\* An onChange handler of the settings tab: assign, then saveSettings.
SetSetting(t, kv) ==
    /\ plugin = "loaded"
    /\ used.sets < MaxSets
    /\ FreeTask(t)
    /\ settings[kv[1]] # kv[2]
    /\ settings' = [settings EXCEPT ![kv[1]] = kv[2]]
    /\ tasks' = [tasks EXCEPT ![t] = saveSettingsTask(settings')]
    /\ used' = [used EXCEPT !.sets = @ + 1]
    /\ UNCHANGED << local, call, vault, now, embeddings, inv, sidebar, statusBar, data, plugin >>

\* encryptApiKey settles, lines 117-126.
EncryptDone(t, ok) ==
    /\ tasks[t].kind = "settings" /\ tasks[t].phase = "encrypt"
    /\ tasks' = [tasks EXCEPT ![t].phase = "write",
                              ![t].dataToSave.encryptedApiKey =
                                  IF ok THEN Some(encryptApiKey(tasks[t].dataToSave.apiKey))
                                  ELSE Some(Placeholder)]
    /\ UNCHANGED << local, call, vault, now, settings, embeddings, inv, sidebar, statusBar, data, used, plugin >>

\* A copy that stores every property.
dataToStoreWhole(dataToSave) ==
    [k \in SettingsKeys |->
        IF k \in OptionalKeys THEN dataToSave[k] ELSE Some(dataToSave[k])]

\* Lines 128-138: every property but apiKey is stored.
dataToStore(dataToSave) ==
    [k \in SettingsKeys |->
        IF k = "apiKey" THEN Absent
        ELSE IF k \in OptionalKeys THEN dataToSave[k]
        ELSE Some(dataToSave[k])]

\* saveData of saveSettings settles.
SettingsSaved(t) ==
    /\ tasks[t].kind = "settings" /\ tasks[t].phase = "write"
    /\ data' = dataToStore(tasks[t].dataToSave)
    /\ used' = [used EXCEPT !.saved = Absent]
    /\ tasks' = [tasks EXCEPT ![t] = NoTask]
    /\ UNCHANGED << local, call, vault, now, settings, embeddings, inv, sidebar, statusBar, plugin >>

\* saveEmbeddingCache called from the settings tab or from onunload, up to
\* loadData: the snapshot of this.embeddings is taken (line 240).
saveEmbeddingCacheTask(e) ==
    [NoTask EXCEPT !.kind = "cache", !.phase = "load", !.obj = ObjectFromEntries(e),
                   !.snapshot = e]

\* A button that saves the cache without emptying it.
ClearCacheKeeping(t) ==
    /\ plugin = "loaded"
    /\ used.clears < MaxClears
    /\ FreeTask(t)
    /\ tasks' = [tasks EXCEPT ![t] = saveEmbeddingCacheTask(embeddings)]
    /\ used' = [used EXCEPT !.clears = @ + 1, !.sinceClear = 0,
                            !.clearQuiet = \A i \in Inv : inv[i].pc \notin {"read", "fetch"}]
    /\ UNCHANGED << local, call, vault, now, settings, embeddings, inv, sidebar, statusBar, data, plugin >>

\* The Clear Cache button, lines 864-868, up to loadData.
ClearCache(t) ==
    /\ plugin = "loaded"
    /\ used.clears < MaxClears
    /\ FreeTask(t)
    /\ embeddings' = EmptyMap
    /\ tasks' = [tasks EXCEPT ![t] = saveEmbeddingCacheTask(embeddings')]
    /\ used' = [used EXCEPT !.clears = @ + 1, !.sinceClear = 0,
                            !.clearQuiet = \A i \in Inv : inv[i].pc \notin {"read", "fetch"}]
    /\ UNCHANGED << local, call, vault, now, settings, inv, sidebar, statusBar, data, plugin >>

\* saveEmbeddingCache of the settings tab or of onunload: loadData settles.
CacheLoaded(t) ==
    /\ tasks[t].kind = "cache" /\ tasks[t].phase = "load"
    /\ tasks' = [tasks EXCEPT ![t].phase = "save", ![t].loaded = data]
    /\ UNCHANGED << local, call, vault, now, settings, embeddings, inv, sidebar, statusBar, data, used,
                    plugin >>

\* saveEmbeddingCache of the settings tab or of onunload: saveData settles
\* (for the button, the notice of line 867 follows).
CacheSaved(t) ==
    /\ tasks[t].kind = "cache" /\ tasks[t].phase = "save"
    /\ data' = saveEmbeddingCacheRecord(tasks[t].loaded, tasks[t].obj)
    /\ used' = [used EXCEPT !.saved = Some(tasks[t].snapshot)]
    /\ tasks' = [tasks EXCEPT ![t] = NoTask]
    /\ UNCHANGED << local, call, vault, now, settings, embeddings, inv, sidebar, statusBar, plugin >>

\* onunload, lines 91-93, with no findSimilarNotes in flight: the cache is
\* saved, not awaited.
Unload(t) ==
    /\ plugin = "loaded"
    /\ used.loads < MaxLoads
    /\ \A i \in Inv : SlotFree(i)
    /\ FreeTask(t)
    /\ plugin' = "unloaded"
    /\ tasks' = [tasks EXCEPT ![t] = saveEmbeddingCacheTask(embeddings)]
    /\ UNCHANGED << local, call, vault, now, settings, embeddings, inv, sidebar, statusBar, data, used >>

\* Milliseconds between onunload and the next onload.
LoadDelays == { 0, DayMs, DayMs + 1 }

\* onload of a new instance, lines 43-44, dt milliseconds later: loadSettings,
\* then loadEmbeddingCache with its sweep.  Nothing else of the plugin runs
\* before the two have settled.
Onload(dt) ==
    /\ plugin = "unloaded"
    /\ \A t \in TaskIds : tasks[t].kind = "none"
    /\ plugin' = "loaded"
    /\ now' = now + dt
    /\ settings' = loadSettings(data)
    /\ embeddings' = loadEmbeddingCache(data, settings', now')
    /\ inv' = [i \in Inv |-> IdleInv]
    /\ sidebar' = [state |-> "none", shown |-> Absent]
    /\ statusBar' = 0
    /\ used' = [used EXCEPT !.loads = @ + 1]
    /\ UNCHANGED << local, call, vault, data, tasks >>

\* ------------------------------------------------------------ specification

\* Records an earlier session left in data.json.
InitData ==
    { NoData,
      [NoData EXCEPT !.numSimilarNotes = Some(1), !.minSimilarityScore = Some(0),
                     !.cacheExpiration = Some(1)],
      [NoData EXCEPT !.numSimilarNotes = Some(2), !.minSimilarityScore = Some(10),
                     !.ignoreFolders = Some(<< FolderN >>),
                     !.useGeminiEmbeddings = Some(TRUE),
                     !.encryptedApiKey = Some(encryptApiKey(KeyValid))],
      [NoData EXCEPT !.minSimilarityScore = Some(10),
                     !.ignoreFolders = Some(<< FolderN >>),
                     !.useGeminiEmbeddings = Some(TRUE),
                     !.encryptedApiKey = Some(encryptApiKey(KeyBlank))] }

InitVault ==
    [p \in Paths |->
        [mtime |-> 0,
         content |-> IF p = PathA THEN TextCat ELSE IF p = PathB THEN TextDog ELSE TextQuantum,
         gone |-> FALSE]]

\* The plugin after onload (lines 43-90) in a vault of three notes.
Init ==
    /\ data \in InitData
    /\ settings = loadSettings(data)
    /\ embeddings = EmptyMap
    /\ vault = InitVault
    /\ now = 0
    /\ inv = [i \in Inv |-> IdleInv]
    /\ sidebar = [state |-> "none", shown |-> Absent]
    /\ statusBar = 0
    /\ tasks = [t \in TaskIds |-> NoTask]
    /\ used = [starts |-> 0, env |-> 0, sets |-> 0, clears |-> 0, loads |-> 0, fails |-> 0,
               sinceClear |-> 0, clearQuiet |-> FALSE,
               saved |-> Absent]
    /\ plugin = "loaded"
    /\ call = NoCall
    /\ local = NoLocal

\* The steps of the findSimilarNotes invocations of the slots I after their
\* start.
Steps(I) ==
    \/ \E i \in I : ReadDone(i)
    \/ \E i \in I, o \in FetchOutcomes : FetchDone(i, o)
    \/ \E i \in I : ActivateDone(i)
    \/ \E i \in I : TimerFire(i)
    \/ \E i \in I : FlushLoaded(i)
    \/ \E i \in I : FlushSaved(i)

\* The findSimilarNotes invocations of the slots I.
Engine(I) ==
    \/ \E i \in I, f \in Paths : Start(i, f)
    \/ Steps(I)

\* One invocation at a time in a vault that changes.
Next ==
    \/ Engine({1})
    \/ CloseSidebar
    \/ \E p \in Paths, t \in EditTexts, dt \in {0, 1} : EditFile(p, t, dt)
    \/ \E p \in Paths : DeleteFile(p)

Spec == Init /\ [][Next]_vars

\* One invocation at a time while the settings tab is used.
NextSettings ==
    \/ Engine({1})
    \/ \E t \in TaskIds, kv \in SettingChoices : SetSetting(t, kv)
    \/ \E t \in TaskIds, ok \in BOOLEAN : EncryptDone(t, ok)
    \/ \E t \in TaskIds : SettingsSaved(t)

SpecSettings == Init /\ [][NextSettings]_vars

\* One invocation at a time and the Clear Cache button.
NextClear ==
    \/ Engine({1})
    \/ \E i \in {1} : FlushFail(i)
    \/ \E t \in TaskIds : ClearCache(t)
    \/ \E t \in TaskIds : CacheLoaded(t)
    \/ \E t \in TaskIds : CacheSaved(t)

SpecClear == Init /\ [][NextClear]_vars

\* Sessions: the plugin is unloaded and loaded again later.
NextLoad ==
    \/ Engine({1})
    \/ \E p \in Paths, t \in EditTexts, dt \in {0, 1} : EditFile(p, t, dt)
    \/ \E t \in TaskIds : Unload(t)
    \/ \E t \in TaskIds : CacheLoaded(t)
    \/ \E t \in TaskIds : CacheSaved(t)
    \/ \E dt \in LoadDelays : Onload(dt)

SpecLoad == Init /\ [][NextLoad]_vars

\* ReadDone(i) is enabled exactly when invocation i waits for a read, and
\* FetchDone(i, o) when it waits for a request; so the first two conditions are
\* WF_vars(ReadDone(i)) and WF_vars(\E o : FetchDone(i, o)) with ENABLED
\* written out.
ReadSettles(i) ==
    []<>(inv[i].pc # "read") \/ []<><<ReadDone(i)>>_vars

FetchSettles(i) ==
    \/ []<>(inv[i].pc # "fetch")
    \/ []<><<\E o \in FetchOutcomes : FetchDone(i, o)>>_vars

\* Spec when every vault.read, every fetch and every setViewState settles
\* (with a value or an error).
SpecLive ==
    /\ Init /\ [][Next]_vars
    /\ ReadSettles(1)
    /\ FetchSettles(1)
    /\ WF_vars(ActivateDone(1))

\* One invocation at a time in a session that lasts: a day or more passes
\* between two steps.
NextAge ==
    \/ Engine({1})
    \/ \E dt \in LoadDelays \ {0} : Tick(dt)

SpecAge == Init /\ [][NextAge]_vars

\* The sidebar is opened by invocations and closed by the user while the
\* active note changes.
NextSidebar ==
    \/ Engine({1})
    \/ \E f \in Paths : ActiveLeafChange(1, f)
    \/ CloseSidebar

SpecSidebar == Init /\ [][NextSidebar]_vars

\* SpecSidebar when the timer of line 605 fires: a setTimeout callback runs
\* once its 300 ms have passed.
SpecHandover == Init /\ [][NextSidebar]_vars /\ WF_vars(TimerFire(1))

\* Two invocations in flight at once (the handler of lines 78-85 starts one at
\* each change of the active note, and awaits none) on a.md and b.md, while
\* a.md is edited and a request may fail.  The first invocation takes slot 1.
NextOverlap ==
    \/ \E f \in {PathA, PathB} : Start(1, f)
    \/ \E f \in {PathA, PathB} : inv[1].pc # "idle" /\ Start(2, f)
    \/ \E i \in Inv : ReadDone(i)
    \/ \E i \in Inv, k \in {"ok", "network"} : FetchDone(i, [kind |-> k])
    \/ \E i \in Inv : ActivateDone(i)
    \/ \E i \in Inv : TimerFire(i)
    \/ \E i \in Inv : FlushLoaded(i)
    \/ \E i \in Inv : FlushSaved(i)
    \/ \E p \in {PathA}, t \in {TextDog}, dt \in {1} : EditFile(p, t, dt)

\* The session left the remote backend with a key and the folder n ignored.
InitOverlap == Init /\ settings.useGeminiEmbeddings /\ settings.apiKey = KeyValid

SpecOverlap == InitOverlap /\ [][NextOverlap]_vars

\* cosineSimilarity alone (lines 520-536) on every pair of short vectors.
InitCosine ==
    /\ data = NoData
    /\ settings = loadSettings(data)
    /\ embeddings = EmptyMap
    /\ vault = InitVault
    /\ now = 0
    /\ inv = [i \in Inv |-> IdleInv]
    /\ sidebar = [state |-> "none", shown |-> Absent]
    /\ statusBar = 0
    /\ tasks = [t \in TaskIds |-> NoTask]
    /\ used = [starts |-> 0, env |-> 0, sets |-> 0, clears |-> 0, loads |-> 0, fails |-> 0,
               sinceClear |-> 0, clearQuiet |-> FALSE,
               saved |-> Absent]
    /\ plugin = "loaded"
    /\ call \in { [NoCall EXCEPT !.a = a, !.b = b] : a \in Vectors, b \in Vectors }
    /\ local = NoLocal

Cosine ==
    /\ call.result = Absent
    /\ call' = [call EXCEPT !.result = Some(cosineSimilarity(call.a, call.b))]
    /\ UNCHANGED << local, vault, now, settings, embeddings, inv, sidebar, statusBar, data,
                    tasks, used, plugin >>

NextCosine == Cosine

SpecCosine == InitCosine /\ [][NextCosine]_vars

\* getLocalEmbedding called on a text, statement by statement.
InitLocal ==
    /\ data = NoData
    /\ settings = loadSettings(data)
    /\ embeddings = EmptyMap
    /\ vault = InitVault
    /\ now = 0
    /\ inv = [i \in Inv |-> IdleInv]
    /\ sidebar = [state |-> "none", shown |-> Absent]
    /\ statusBar = 0
    /\ tasks = [t \in TaskIds |-> NoTask]
    /\ used = [starts |-> 0, env |-> 0, sets |-> 0, clears |-> 0, loads |-> 0, fails |-> 0,
               sinceClear |-> 0, clearQuiet |-> FALSE,
               saved |-> Absent]
    /\ plugin = "loaded"
    /\ call = NoCall
    /\ local \in { [NoLocal EXCEPT !.pc = "called", !.text = t] : t \in LocalTexts }

LocalUnchanged ==
    UNCHANGED << call, vault, now, settings, embeddings, inv, sidebar, statusBar, data,
                 tasks, used, plugin >>

\* Lines 361-399: the tokens are counted and each count is added at its slot.
HashTokens ==
    /\ local.pc = "called"
    /\ LET v == ownLoop([i \in 1..LocalDim |-> 0], ObjectKeys(local.text),
                        tokenFreq(local.text))
       IN  local' = [local EXCEPT !.pc = "hashed", !.vector = v, !.own = v]
    /\ LocalUnchanged

\* Line 403: addCrossLanguageFeatures(vector, tokenFreq), lines 428-495.
CrossFeatures ==
    /\ local.pc = "hashed"
    /\ LET r == crossLoop(local.vector, ObjectKeys(local.text), tokenFreq(local.text))
       IN  local' = [local EXCEPT !.pc = IF r.thrown THEN "thrown" ELSE "crossed",
                                  !.vector = r.vector]
    /\ LocalUnchanged

\* Lines 405-413: the vector is normalized and returned.
ReturnVector ==
    /\ local.pc = "crossed"
    /\ local' = [local EXCEPT !.pc = "returned", !.result = Some(normalize(local.vector))]
    /\ LocalUnchanged

NextLocal == HashTokens \/ CrossFeatures \/ ReturnVector

SpecLocal == InitLocal /\ [][NextLocal]_vars

\* ------------------------------------------------------------------ claims

\* C1: getNoteEmbedding returns the cached vector, without reading the file or
\* computing anything, exactly when the cache has an entry for the file whose
\* timestamp is >= the file's modification time; with no entry, or an entry
\* older than the modification time, it reads the file and what it returns
\* is the vector it computed.
C1_CacheOrCompute ==
    \A i \in Inv : \A n \in DOMAIN inv[i].log :
        LET e == inv[i].log[n]
            fresh == e.had /\ e.timestamp >= e.mtime
            pending == n = Len(inv[i].log) /\ inv[i].pc = "read"
        IN  /\ fresh => (e.returned = e.cached /\ ~e.read /\ e.computed = Absent)
            /\ ~fresh => (e.read \/ pending)
            /\ ~fresh /\ e.returned # Absent =>
                   (e.computed # Absent /\ e.returned = e.computed)

\* One invocation was served an entry as old as the file and recomputed a
\* file modified after its entry was written.
C1_Witness ==
    \E i \in Inv : \E n, m \in DOMAIN inv[i].log :
        /\ inv[i].log[n].had /\ inv[i].log[n].timestamp >= inv[i].log[n].mtime
        /\ inv[i].log[n].returned # Absent
        /\ inv[i].log[m].had /\ inv[i].log[m].timestamp < inv[i].log[m].mtime
        /\ inv[i].log[m].returned # Absent

\* C2: a step in which getNoteEmbedding stores a vector leaves the cache as it
\* was but for the entry of that file, which now holds the vector computed
\* from the content read (by the service or by the local embedder) and the
\* current time.
C2_StoreWritesOneEntry ==
    [][\A i \in Inv :
          Len(inv'[i].stored) > Len(inv[i].stored) =>
              LET s == inv'[i].stored[Len(inv'[i].stored)]
                  text == IF inv[i].pc = "read" THEN vault[inv[i].file].content
                          ELSE inv[i].content
              IN  /\ Len(inv'[i].stored) = Len(inv[i].stored) + 1
                  /\ s.file = inv[i].file
                  /\ s.embedding \in { [dir |-> RemoteVectorOf[text], mag2 |-> 1] }
                                      \cup { v[1] : v \in { LocalEmbeddingOf[text] } \ { Throw } }
                  /\ s.timestamp = now
                  /\ embeddings' = MapSet(embeddings, s.file,
                                          [embedding |-> s.embedding, timestamp |-> now])
      ]_vars

\* An entry was overwritten at a later time while another file's entry stayed.
C2_Witness ==
    \E i \in Inv : \E n \in DOMAIN inv[i].log :
        /\ inv[i].log[n].had /\ inv[i].log[n].computed # Absent
        /\ inv[i].log[n].file \in DOMAIN embeddings
        /\ embeddings[inv[i].log[n].file].timestamp > inv[i].log[n].timestamp
        /\ \E p \in DOMAIN embeddings : p # inv[i].log[n].file

\* C3: when the request to the service fails (rejected, error status, body of
\* another shape), getEmbedding returns the local embedding of the same text
\* with a fallback notice, and the invocation does not fail on that file.
C3_RemoteFailureRecovered ==
    \A i \in Inv : \A n \in DOMAIN inv[i].log :
        LET e == inv[i].log[n]
        IN  e.remote \in {"network", "status", "format"} =>
                /\ "fallback" \in inv[i].notices
                /\ e.returned # Absent
                /\ e.returned = LocalEmbeddingOf[e.content[1]]
                /\ ~(n = Len(inv[i].log) /\ inv[i].pc = "failed")

\* C4: no invocation ends in Failed while it resolves a candidate.
C4_CandidateFailureDropped ==
    \A i \in Inv : inv[i].pc = "failed" => inv[i].role = "query"

\* C5: an invocation that failed on its query file resolved no candidate, handed
\* no result to the sidebar (now or by timer), saved nothing, and showed the
\* error notice.
C5_QueryFailureAborts ==
    \A i \in Inv :
        inv[i].pc = "failed" /\ inv[i].role = "query" =>
            /\ Len(inv[i].log) = 1 /\ inv[i].log[1].file = inv[i].currentFile
            /\ inv[i].stored = << >>
            /\ inv[i].topResults = << >> /\ ~inv[i].handed /\ ~inv[i].timer
            /\ inv[i].flush = NoFlush
            /\ "error" \in inv[i].notices

\* An invocation failed on its query file after reading it.
C5_Witness ==
    \E i \in Inv : inv[i].pc = "failed" /\ inv[i].role = "query" /\ inv[i].log[1].read

\* C6: the result list of an invocation is no longer than the cap the
\* invocation started under, holds no score below the floor it started
\* under, and is sorted by score, highest first.
C6_ResultsWithinCapAndFloor ==
    \A i \in Inv :
        inv[i].pc \in {"activate", "done"} =>
            LET r == inv[i].topResults
            IN  /\ Len(r) <= inv[i].S0.numSimilarNotes
                /\ \A k \in DOMAIN r :
                       ScoreGeq(r[k].score, FloorScore(inv[i].S0.minSimilarityScore))
                /\ \A k \in 1..(Len(r) - 1) : ScoreGeq(r[k].score, r[k + 1].score)

\* C7: neither the query file nor a file under a folder ignored when the
\* invocation started is in its result list, and getNoteEmbedding is not
\* called on such a file as a candidate.
C7_ExcludedNeverResolved ==
    \A i \in Inv :
        LET ignored(path) == \E j \in DOMAIN inv[i].S0.ignoreFolders :
                                 startsWith(path, inv[i].S0.ignoreFolders[j])
            excluded(path) == path = inv[i].currentFile \/ ignored(path)
        IN  /\ \A k \in DOMAIN inv[i].topResults : ~excluded(inv[i].topResults[k].file)
            /\ \A n \in 2..Len(inv[i].log) : ~excluded(inv[i].log[n].file)

\* C8: loadEmbeddingCache leaves in the cache exactly the persisted entries
\* whose age at load is at most cacheExpiration days, each as persisted.
C8_SweepAtLoad ==
    [][plugin = "unloaded" /\ plugin' = "loaded" /\ data.embeddings # Absent =>
          LET window == settings'.cacheExpiration * DayMs
              persisted == data.embeddings[1]
          IN  /\ \A e \in persisted :
                     IF now' - e.value.timestamp > window
                     THEN e.key \notin DOMAIN embeddings'
                     ELSE e.key \in DOMAIN embeddings' /\ embeddings'[e.key] = e.value
              /\ DOMAIN embeddings' \subseteq { e.key : e \in persisted }
      ]_vars

\* A load has just kept one persisted entry and removed another.
C8_Witness ==
    /\ plugin = "loaded" /\ used.loads > 0
    /\ \A i \in Inv : inv[i] = IdleInv
    /\ data.embeddings # Absent
    /\ \E e \in data.embeddings[1] : e.key \in DOMAIN embeddings
    /\ \E e \in data.embeddings[1] : e.key \notin DOMAIN embeddings

\* C9 as stated: the first invocation started after Clear Cache is served
\* nothing from the cache.
C9_NextRunHasNoHit ==
    \A i \in Inv :
        inv[i].sinceClear = 1 =>
            \A n \in DOMAIN inv[i].log :
                inv[i].log[n].returned # Absent => inv[i].log[n].computed # Absent

\* C9 amended: Clear Cache empties this.embeddings; its save writes an empty
\* cache; and when no call of getNoteEmbedding was suspended at a read or a
\* request while the button was pressed, the first invocation started
\* afterwards is served nothing from the cache.
C9_ClearEmptiesCache ==
    [][/\ used'.clears > used.clears => embeddings' = EmptyMap
       /\ \A t \in TaskIds :
              tasks[t].kind = "cache" /\ tasks[t].phase = "save" /\ tasks'[t].kind = "none"
                  => data'.embeddings = Some({})
       /\ \A i \in Inv :
              inv'[i].sinceClear = 1 /\ inv'[i].quietClear =>
                  \A n \in DOMAIN inv'[i].log :
                      inv'[i].log[n].returned # Absent => inv'[i].log[n].computed # Absent
      ]_vars

\* After an invocation filled the cache, the button was pressed with nothing
\* suspended, its save settled, and the next invocation resolved its files.
C9_Witness ==
    /\ used.clears > 0 /\ used.starts > 1
    /\ \A t \in TaskIds : tasks[t].kind = "none"
    /\ data.embeddings # Absent
    /\ \E i \in Inv : /\ inv[i].sinceClear = 1 /\ inv[i].quietClear
                       /\ inv[i].pc = "done" /\ Len(inv[i].stored) > 1

\* C10: a cache saved by saveEmbeddingCache and loaded by loadEmbeddingCache
\* while none of its entries is older than the window is the cache that
\* was saved: same paths, same vectors, same timestamps.
C10_SaveLoadRoundTrip ==
    [][/\ plugin = "unloaded" /\ plugin' = "loaded"
       /\ used.saved # Absent
       /\ \A k \in DOMAIN used.saved[1] :
              now' - used.saved[1][k].timestamp <= settings'.cacheExpiration * DayMs
       => embeddings' = used.saved[1]
      ]_vars

\* A cache of several entries, written at different times, has been saved and
\* loaded again.
C10_Witness ==
    /\ plugin = "loaded" /\ used.loads > 0
    /\ \A i \in Inv : inv[i] = IdleInv
    /\ used.saved # Absent /\ embeddings = used.saved[1]
    /\ \E p, q \in DOMAIN embeddings : embeddings[p].timestamp < embeddings[q].timestamp

\* C11: while useGeminiEmbeddings is false no step issues a request to the
\* service, and a vector stored by a step that read the file is the local
\* embedding of the content read.
C11_LocalBackendStaysLocal ==
    [][\A i \in Inv :
          /\ inv'[i].fetches > inv[i].fetches => settings.useGeminiEmbeddings
          /\ ~settings.useGeminiEmbeddings /\ inv[i].pc = "read" =>
                 /\ inv'[i].pc # "fetch"
                 /\ Len(inv'[i].stored) > Len(inv[i].stored) =>
                        Some(inv'[i].stored[Len(inv'[i].stored)].embedding)
                            = LocalEmbeddingOf[vault[inv[i].file].content]
      ]_vars

\* With a key in the settings and the local backend, an invocation resolved
\* all three notes without a request.
C11_Witness ==
    \E i \in Inv :
        /\ inv[i].pc = "done" /\ Len(inv[i].stored) = 3 /\ inv[i].fetches = 0
        /\ ~inv[i].S0.useGeminiEmbeddings /\ ~settings.useGeminiEmbeddings
        /\ inv[i].S0.apiKey # KeyEmpty

\* C12: with the remote backend and an empty or blank API key no request is
\* issued, and every file whose content was read gets its local embedding.
C12_BlankKeyFallsBack ==
    \A i \in Inv :
        settings.useGeminiEmbeddings /\ trim(settings.apiKey) = KeyEmpty =>
            /\ inv[i].fetches = 0
            /\ \A n \in DOMAIN inv[i].log :
                   inv[i].log[n].content # Absent =>
                       /\ inv[i].log[n].returned # Absent
                       /\ inv[i].log[n].returned = LocalEmbeddingOf[inv[i].log[n].content[1]]

\* C13: an invocation issues at most one request per call of getNoteEmbedding,
\* calls it at most once per file, and when a request has failed the fallback
\* notice is shown and no request for that file is pending.
C13_NoRetry ==
    \A i \in Inv :
        LET log == inv[i].log
            failed(n) == log[n].remote \in {"network", "status", "format"}
        IN  /\ inv[i].fetches = Cardinality({ n \in DOMAIN log : log[n].remote # "none" })
            /\ \A n, m \in DOMAIN log : log[n].file = log[m].file => n = m
            /\ \A n \in DOMAIN log :
                   failed(n) => /\ "fallback" \in inv[i].notices
                                /\ inv[i].pc = "fetch" => n < Len(log)

\* A request failed, the local vector was returned, and the invocation went on
\* to request the vector of another file.
C13_Witness ==
    \E i \in Inv : \E n \in DOMAIN inv[i].log :
        /\ inv[i].log[n].remote \in {"network", "status", "format"}
        /\ inv[i].log[n].returned # Absent
        /\ inv[i].fetches > 1

\* C14 as stated: an invocation started after the slot's previous one ended
\* Done on the same note, with no change of the vault since that one ranked
\* and no cached entry older than its file at the start, reads nothing, computes nothing
\* and ranks the same list.
C14_SecondRunIdentical ==
    \A i \in Inv :
        /\ inv[i].prev.pc = "done" /\ inv[i].prev.currentFile = inv[i].currentFile
        /\ used.env = inv[i].prev.envRanked
        /\ inv[i].warm
        => /\ inv[i].pc \in {"activate", "done"}
           /\ inv[i].stored = << >>
           /\ \A n \in DOMAIN inv[i].log :
                  ~inv[i].log[n].read /\ inv[i].log[n].computed = Absent
           /\ inv[i].topResults = inv[i].prev.topResults

\* C14 amended: the same, with no change of the vault since the previous
\* invocation started.
C14_SecondRunIdenticalSinceStart ==
    \A i \in Inv :
        /\ inv[i].prev.pc = "done" /\ inv[i].prev.currentFile = inv[i].currentFile
        /\ used.env = inv[i].prev.env0
        /\ inv[i].warm
        => /\ inv[i].pc \in {"activate", "done"}
           /\ inv[i].stored = << >>
           /\ \A n \in DOMAIN inv[i].log :
                  ~inv[i].log[n].read /\ inv[i].log[n].computed = Absent
           /\ inv[i].topResults = inv[i].prev.topResults

\* A second invocation on the same note ranked a non-empty list again from
\* the cache alone.
C14_Witness ==
    \E i \in Inv :
        /\ inv[i].prev.pc = "done" /\ inv[i].prev.currentFile = inv[i].currentFile
        /\ used.env = inv[i].prev.env0 /\ inv[i].warm
        /\ inv[i].pc = "done" /\ Len(inv[i].log) = 3 /\ inv[i].topResults # << >>

\* C15: every decision of an invocation follows the settings in force when it
\* started: a remote request is pending or recorded only if they chose the
\* remote backend with a key, a vector computed without a request only if
\* they did not choose it with a valid key, every ranked candidate passes
\* their floor, the result list is the ranked list cut at their cap, and no
\* candidate is under a folder they ignore.
C15_SettingsSnapshot ==
    \A i \in Inv :
        LET S == inv[i].S0
            remote == S.useGeminiEmbeddings /\ S.apiKey # KeyEmpty
            ranked == inv[i].similarityScores
        IN  /\ inv[i].pc = "fetch" => remote
            /\ \A n \in DOMAIN inv[i].log :
                   /\ inv[i].log[n].remote # "none" => remote
                   /\ inv[i].log[n].computed # Absent /\ inv[i].log[n].remote = "none"
                          => ~(remote /\ trim(S.apiKey) # KeyEmpty)
            /\ \A k \in DOMAIN ranked :
                   ScoreGeq(ranked[k].score, FloorScore(S.minSimilarityScore))
            /\ inv[i].pc \in {"activate", "done"} =>
                   inv[i].topResults = slice(ranked, S.numSimilarNotes)
            /\ \A n \in 2..Len(inv[i].log) :
                   \A j \in DOMAIN S.ignoreFolders :
                       ~startsWith(inv[i].log[n].file, S.ignoreFolders[j])

\* C16: every candidate vector an invocation compares with its query vector
\* comes from the same backend as the query vector, and a cached vector is
\* served only under the backend that produced it.  (The local embedder
\* produces vectors of LocalDim components, the service shorter ones.)
C16_BackendsNeverMixed ==
    \A i \in Inv :
        LET isLocal(v) == Len(v.dir) = LocalDim
            I == inv[i]
        IN  \A n \in DOMAIN I.log :
                /\ n > 1 /\ I.log[n].returned # Absent /\ I.currentEmbedding # Absent
                       => isLocal(I.log[n].returned[1]) = isLocal(I.currentEmbedding[1])
                /\ I.log[n].returned # Absent /\ ~I.log[n].read /\ I.S0 = settings
                       => isLocal(I.log[n].returned[1])
                              = ~(settings.useGeminiEmbeddings
                                      /\ trim(settings.apiKey) # KeyEmpty)

\* C17: a candidate whose vector has another number of components than the
\* query vector is neither ranked nor in the result list, whatever the floor,
\* and the invocation does not fail at it.
C17_MismatchExcluded ==
    \A i \in Inv :
        \A n \in 2..Len(inv[i].log) :
            /\ inv[i].log[n].returned # Absent /\ inv[i].currentEmbedding # Absent
            /\ Len(inv[i].log[n].returned[1].dir) # Len(inv[i].currentEmbedding[1].dir)
            => /\ \A k \in DOMAIN inv[i].similarityScores :
                      inv[i].similarityScores[k].file # inv[i].log[n].file
               /\ \A k \in DOMAIN inv[i].topResults :
                      inv[i].topResults[k].file # inv[i].log[n].file
               /\ n = Len(inv[i].log) => inv[i].pc # "failed"

\* C18: cosineSimilarity returns exactly 0 when its arguments differ in
\* length or one of them has norm zero (empty vectors included), and it
\* never divides by zero.
C18_CosineZeroCases ==
    call.result # Absent =>
        /\ call.result[1].den2 > 0
        /\ (\/ Len(call.a.dir) # Len(call.b.dir)
            \/ SquareSum(call.a.dir) = 0
            \/ SquareSum(call.b.dir) = 0)
           => call.result[1] = ZeroScore

\* cosineSimilarity returned for a zero vector and a non-zero vector of the
\* same positive length.
C18_Witness ==
    /\ call.result # Absent
    /\ Len(call.a.dir) = Len(call.b.dir) /\ Len(call.a.dir) > 0
    /\ SquareSum(call.a.dir) = 0 /\ SquareSum(call.b.dir) > 0

\* C19 as stated: the step that takes an invocation to Done starts a flush
\* whose snapshot holds every entry the invocation wrote; the result is handed
\* to the sidebar at that step or when the timer fires, whatever the flush
\* does; a flush that ends without writing leaves the invocation Done.
C19_FlushAtDone ==
    [][\A i \in Inv :
          LET I == inv[i]
              J == inv'[i]
          IN  /\ I.pc # "done" /\ J.pc = "done" =>
                     /\ J.flush.phase = "load"
                     /\ \A n \in DOMAIN J.stored :
                            /\ J.stored[n].file \in DOMAIN J.flush.snapshot
                            /\ J.flush.snapshot[J.stored[n].file]
                                   = [embedding |-> J.stored[n].embedding,
                                      timestamp |-> J.stored[n].timestamp]
                     /\ ~J.timer => J.handed
              /\ I.timer /\ ~J.timer => J.handed
              /\ I.flush.phase # "none" /\ J.flush.phase = "none" /\ data' = data
                     /\ used'.saved = used.saved
                     => J.pc = "done" /\ I.pc = "done" /\ J.notices = I.notices
      ]_vars

\* C19 amended: the same, the snapshot holding every entry the invocation
\* wrote when the cache was not cleared since it started.
C19_FlushAtDoneUncleared ==
    [][\A i \in Inv :
          LET I == inv[i]
              J == inv'[i]
          IN  /\ I.pc # "done" /\ J.pc = "done" =>
                     /\ J.flush.phase = "load"
                     /\ used.clears = J.clears0 =>
                        \A n \in DOMAIN J.stored :
                            /\ J.stored[n].file \in DOMAIN J.flush.snapshot
                            /\ J.flush.snapshot[J.stored[n].file]
                                   = [embedding |-> J.stored[n].embedding,
                                      timestamp |-> J.stored[n].timestamp]
                     /\ ~J.timer => J.handed
              /\ I.timer /\ ~J.timer => J.handed
              /\ I.flush.phase # "none" /\ J.flush.phase = "none" /\ data' = data
                     /\ used'.saved = used.saved
                     => J.pc = "done" /\ I.pc = "done" /\ J.notices = I.notices
      ]_vars

\* An invocation that wrote three entries is Done with its result handed
\* over, and its flush failed.
C19_Witness ==
    \E i \in Inv :
        /\ inv[i].pc = "done" /\ inv[i].handed /\ Len(inv[i].stored) = 3
        /\ inv[i].fetches = 0 /\ used.fails > 0 /\ inv[i].flush.phase = "none"

\* C20: with invocations in flight at once, no entry leaves the cache, an
\* entry appears or changes only as the one complete write of an invocation
\* in that step, and every write of an invocation is the entry of its file
\* right after it, so that the entry of a file is always the last write made
\* for it.
C20_OverlapKeepsCacheWhole ==
    [][/\ \A p \in DOMAIN embeddings :
              /\ p \in DOMAIN embeddings'
              /\ embeddings'[p] # embeddings[p] =>
                     \E i \in Inv :
                         /\ Len(inv'[i].stored) = Len(inv[i].stored) + 1
                         /\ inv'[i].stored[Len(inv'[i].stored)]
                                = [file |-> p, embedding |-> embeddings'[p].embedding,
                                   timestamp |-> embeddings'[p].timestamp]
       /\ \A p \in DOMAIN embeddings' \ DOMAIN embeddings :
              \E i \in Inv :
                  /\ Len(inv'[i].stored) = Len(inv[i].stored) + 1
                  /\ inv'[i].stored[Len(inv'[i].stored)]
                         = [file |-> p, embedding |-> embeddings'[p].embedding,
                            timestamp |-> embeddings'[p].timestamp]
       /\ \A i \in Inv :
              Len(inv'[i].stored) > Len(inv[i].stored) =>
                  LET w == inv'[i].stored[Len(inv'[i].stored)]
                  IN  /\ w.file \in DOMAIN embeddings'
                      /\ embeddings'[w.file]
                             = [embedding |-> w.embedding, timestamp |-> w.timestamp]
      ]_vars

\* Two invocations are in flight, both have written the entry of the same
\* file, at different times, and the cache holds the later write.
C20_Witness ==
    \E i \in Inv, j \in Inv :
        /\ inv[i].pc \in {"read", "fetch"} /\ inv[j].pc \in {"read", "fetch"}
        /\ \E n \in DOMAIN inv[i].stored, m \in DOMAIN inv[j].stored :
               /\ inv[i].stored[n].file = inv[j].stored[m].file
               /\ inv[i].stored[n].timestamp < inv[j].stored[m].timestamp
               /\ inv[i].stored[n].embedding # inv[j].stored[m].embedding
               /\ embeddings[inv[j].stored[m].file]
                      = [embedding |-> inv[j].stored[m].embedding,
                         timestamp |-> inv[j].stored[m].timestamp]

\* C21: the persisted record never has an apiKey property, and a saveSettings
\* that had a key to save leaves in encryptedApiKey the encryption of that key
\* or the placeholder.
C21_NoPlainKeyPersisted ==
    [][/\ data.apiKey = Absent /\ data'.apiKey = Absent
       /\ \A t \in TaskIds :
              /\ tasks[t].kind = "settings" /\ tasks[t].phase = "write"
              /\ tasks'[t].kind = "none" /\ tasks[t].dataToSave.apiKey # KeyEmpty
              => data'.encryptedApiKey
                     \in { Some(encryptApiKey(tasks[t].dataToSave.apiKey)), Some(Placeholder) }
      ]_vars

\* The key was changed, its encryption failed, saveSettings wrote the record
\* and a saveEmbeddingCache of an invocation rewrote it afterwards.
C21_Witness ==
    /\ used.sets > 0 /\ settings.apiKey # KeyEmpty
    /\ data.encryptedApiKey = Some(Placeholder)
    /\ used.saved # Absent

C23_TiesInListingOrder ==
    \A i \in Inv :
        inv[i].pc \in {"activate", "done"} =>
            LET I == inv[i]
                pos(f) == CHOOSE k \in DOMAIN I.files : I.files[k] = f
                tied(x, y) == ScoreGeq(x.score, y.score) /\ ScoreGeq(y.score, x.score)
                top == I.topResults
                ranked == I.similarityScores
            IN  /\ \A k \in DOMAIN top, l \in DOMAIN top :
                       k < l /\ tied(top[k], top[l]) => pos(top[k].file) < pos(top[l].file)
                /\ \A k \in DOMAIN top, l \in DOMAIN ranked :
                       l > Len(top) /\ tied(top[k], ranked[l])
                           => pos(top[k].file) < pos(ranked[l].file)

\* Two candidates were ranked with the same score and the cap kept only the
\* one listed first.
C23_Witness ==
    \E i \in Inv :
        /\ inv[i].pc = "done" /\ Len(inv[i].topResults) = 1
        /\ Len(inv[i].similarityScores) = 2
        /\ inv[i].similarityScores[1].score = inv[i].similarityScores[2].score
        /\ inv[i].topResults[1].file = PathA

\* C24: once the query is resolved, if every listed file is the query, is
\* ignored, or was resolved as a candidate with a score below the floor, the
\* invocation has ranked an empty list without failing and without the error
\* notice, and once it is Done with no timer pending the sidebar was given
\* the empty list.
C24_EmptyResultIsDone ==
    \A i \in Inv :
        LET I == inv[i]
            eligible == { f \in Range(I.files) : f # I.currentFile /\ ~shouldIgnoreFile(f) }
            below(f) ==
                \E n \in 2..Len(I.log) :
                    /\ I.log[n].file = f /\ I.log[n].returned # Absent
                    /\ ~ScoreGeq(cosineSimilarity(I.currentEmbedding[1], I.log[n].returned[1]),
                                 FloorScore(settings.minSimilarityScore))
        IN  I.role = "candidate" /\ (\A f \in eligible : below(f)) =>
                /\ I.pc \in {"activate", "done"}
                /\ I.topResults = << >>
                /\ "error" \notin I.notices
                /\ I.pc = "done" /\ ~I.timer =>
                       /\ I.handed
                       /\ sidebar.shown = Some([file |-> I.currentFile, results |-> << >>])

\* An invocation whose listing held no eligible candidate is Done and the
\* sidebar shows its empty list.
C24_Witness ==
    \E i \in Inv :
        /\ inv[i].pc = "done" /\ inv[i].handed /\ Len(inv[i].log) = 1
        /\ Len(inv[i].files) = 2
        /\ sidebar.shown = Some([file |-> inv[i].currentFile, results |-> << >>])

\* C25: the active-leaf-change handler starts an invocation only on an
\* existing note and with the sidebar set and visible; the sidebar stops
\* being visible only by being closed, and becomes visible only when an
\* invocation's activateSidebar builds its view.
C25_AutoRefreshOnlyWhenVisible ==
    [][/\ \A i \in Inv :
              used'.starts > used.starts /\ inv'[i] # inv[i] /\ inv'[i].auto =>
                  /\ sidebar.state = "open"
                  /\ ~vault[inv'[i].currentFile].gone
       /\ sidebar.state = "open" /\ sidebar'.state # "open" => sidebar'.state = "closed"
       /\ sidebar.state # "open" /\ sidebar'.state = "open" =>
              \E i \in Inv : inv[i].pc = "activate"
      ]_vars

\* An invocation opened the sidebar; the handler then started another, which
\* is Done with its list in the sidebar.
C25_Witness ==
    \E i \in Inv :
        /\ inv[i].auto /\ inv[i].prev.pc = "done"
        /\ sidebar.state = "open" /\ inv[i].pc = "done" /\ inv[i].handed

C27_NoHitPastWindow ==
    [][\A i \in Inv :
          LET old == IF used'.starts > used.starts THEN 0 ELSE Len(inv[i].log)
          IN  \A n \in (old + 1)..Len(inv'[i].log) :
                  LET entry == inv'[i].log[n]
                  IN  (entry.had /\ ~entry.read /\ entry.returned # Absent)
                          => now' - entry.timestamp <= settings'.cacheExpiration * DayMs
      ]_vars

\* C28: getGeminiEmbedding returns the service's vector only when fetch
\* resolved with a success status and a body holding an array at
\* embedding.values.  When fetch rejected, when the status was an error
\* (its message is shown), and when the body had another shape, it throws:
\* the vector of the file, if any, is the local one of getEmbedding's fallback.
C28_VectorOnlyFromValidResponse ==
    \A i \in Inv : \A n \in DOMAIN inv[i].log :
        LET entry == inv[i].log[n]
            text == entry.content[1]
        IN  /\ entry.remote = "ok"
                => entry.computed = Some([dir |-> RemoteVectorOf[text], mag2 |-> 1])
            /\ entry.remote \in {"network", "status", "format"}
                => /\ "fallback" \in inv[i].notices
                   /\ entry.computed = LocalEmbeddingOf[text]
            /\ entry.remote = "status" => "apiError" \in inv[i].notices
            /\ entry.remote = "pending" => entry.computed = Absent
            /\ entry.remote = "none" /\ entry.computed # Absent
                => entry.computed = LocalEmbeddingOf[text]

\* One response of an invocation had a body of another shape and another
\* response held the vector.
C28_Witness ==
    \E i \in Inv : \E n, m \in DOMAIN inv[i].log :
        /\ inv[i].log[n].remote = "format" /\ inv[i].log[n].computed # Absent
        /\ inv[i].log[m].remote = "ok" /\ inv[i].log[m].computed # Absent

\* C29: each token's slot is |h| mod 100, h the rolling hash hash*31 + char
\* wrapped to signed 32 bits, in 0..99 for a token of letters and digits and
\* in 100..199 for a CJK character, also when h is -2^31; the counts are
\* added at these slots only, and the vector has 200 components throughout.
C29_SlotsWithinVector ==
    LET freq == tokenFreq(local.text)
        absMod(t) ==
            LET h == hashLoop([hi |-> 0, lo |-> 0], t)
            IN  IF h.hi < 32768 THEN (h.hi * 65536 + h.lo) % 100
                ELSE ((65536 - h.hi) * 36 - h.lo) % 100
        slot(t) == IF Len(t) = 1 /\ isCJKChar(t[1]) THEN 100 + absMod(t) ELSE absMod(t)
    IN  local.pc \notin {"idle", "called"}
        => /\ Len(local.vector) = 200
           /\ \A t \in DOMAIN freq :
                  /\ slotOf(t) = slot(t)
                  /\ slotOf(t) >= 0 /\ slotOf(t) < 200
                  /\ (\A j \in DOMAIN t : isLatin(t[j])) => slotOf(t) < 100
                  /\ (\E j \in DOMAIN t : isCJKChar(t[j])) => slotOf(t) >= 100
           /\ local.pc = "hashed"
                  => \A n \in 0..199 :
                         LET here == { t \in DOMAIN freq : slot(t) = n }
                             keys == ObjectKeys(local.text)
                         IN  IF \E t \in here : freq[t] = NotANumber
                             THEN local.vector[n + 1] = NotANumber
                             ELSE local.vector[n + 1]
                                      = 2 * SumSeq([k \in DOMAIN keys |->
                                                       IF keys[k] \in here THEN freq[keys[k]]
                                                       ELSE 0])
           /\ local.pc = "returned"
                  => /\ Len(local.result[1].dir) = 200
                     /\ local.result = getLocalEmbedding(local.text)

\* The counts of a text with a CJK character and a word whose hash wraps to
\* -2^31 have been added.
C29_Witness ==
    /\ local.pc = "hashed"
    /\ \E t, u \in DOMAIN tokenFreq(local.text) :
           /\ hashLoop([hi |-> 0, lo |-> 0], t) = [hi |-> 32768, lo |-> 0]
           /\ isCJKChar(u[1])
           /\ local.vector[48 + 1] = 2 /\ local.vector[slotOf(u) + 1] = 2

\* C30: when addCrossLanguageFeatures has ended, what it added to the
\* vector is, for every token of the text that is an English term of the table
\* or one of its listed equivalents, half the token's count at the slot of
\* each equivalent in the other half of the vector, and nothing else: a
\* token that is not in the table adds nothing.
C30_HalvesForTableTokens ==
    LET freq == tokenFreq(local.text)
        rows == DOMAIN commonConcepts
        \* how many halves token t adds at slot n
        halves(t, n) ==
            freq[t] * ( Cardinality({ << r, k >> \in rows \X (1..3) :
                                         /\ commonConcepts[r].eng = t
                                         /\ k \in DOMAIN commonConcepts[r].zh
                                         /\ 100 + mod100(simpleHash(commonConcepts[r].zh[k])) = n })
                        + Cardinality({ r \in rows :
                                           /\ t \in Range(commonConcepts[r].zh)
                                           /\ mod100(simpleHash(commonConcepts[r].eng)) = n }) )
        inTable(t) ==
            \E r \in rows : commonConcepts[r].eng = t \/ t \in Range(commonConcepts[r].zh)
        keys == ObjectKeys(local.text)
    IN  local.pc \in {"crossed", "thrown"}
        => \A n \in 0..199 :
               local.vector[n + 1]
                   = Plus(local.own[n + 1],
                          SumSeq([k \in DOMAIN keys |->
                                     IF inTable(keys[k]) THEN halves(keys[k], n) ELSE 0]))

C32_HitIsOfCurrentContent ==
    [][\A i \in Inv :
          LET old == IF used'.starts > used.starts /\ inv'[i] # inv[i] THEN 0
                     ELSE Len(inv[i].log)
          IN  \A n \in (old + 1)..Len(inv'[i].log) :
                  LET entry == inv'[i].log[n]
                      text == vault'[entry.file].content
                  IN  (entry.had /\ ~entry.read /\ entry.returned # Absent)
                          => \/ entry.returned
                                    = Some([dir |-> RemoteVectorOf[text], mag2 |-> 1])
                             \/ entry.returned = LocalEmbeddingOf[text]
      ]_vars

\* C33: when a request failed and the local vector was returned instead, the
\* cache entry of the file is set to that vector with the time of the write;
\* and getNoteEmbedding, with the remote backend and a key configured, serves
\* a cached local vector without a read or a request as long as the entry
\* is there and the file is not newer than it.
C33_FallbackVectorReused ==
    /\ [][\A i \in Inv : \A n \in DOMAIN inv'[i].log :
              LET entry == inv'[i].log[n]
                  fresh == \/ n > Len(inv[i].log)
                           \/ inv[i].log[n].computed = Absent
              IN  /\ entry.remote \in {"network", "status", "format"}
                  /\ entry.computed # Absent /\ fresh /\ inv[i].pc = "fetch"
                  => /\ entry.file \in DOMAIN embeddings'
                     /\ embeddings'[entry.file]
                            = [embedding |-> LocalEmbeddingOf[entry.content[1]][1],
                               timestamp |-> now']
         ]_vars
    /\ [](\A i \in Inv : \A n \in DOMAIN inv[i].log :
              LET entry == inv[i].log[n]
              IN  /\ entry.had /\ entry.mtime <= entry.timestamp
                  /\ Len(entry.cached[1].dir) = LocalDim
                  /\ inv[i].S0.useGeminiEmbeddings /\ trim(inv[i].S0.apiKey) # KeyEmpty
                  => /\ ~entry.read /\ entry.remote = "none"
                     /\ entry.returned = entry.cached)

\* With the remote backend and a key, a second invocation was served the
\* local vector that the first one cached after a failed request.
C33_Witness ==
    \E i \in Inv : \E n \in DOMAIN inv[i].log :
        /\ inv[i].prev.pc = "done" /\ inv[i].pc = "done"
        /\ settings.useGeminiEmbeddings /\ trim(settings.apiKey) # KeyEmpty
        /\ used.fails > 0
        /\ inv[i].log[n].had /\ ~inv[i].log[n].read
        /\ Len(inv[i].log[n].returned[1].dir) = LocalDim
        /\ inv[i].fetches = 0

\* C34: when no request is pending, no status bar item of a request is
\* shown, whatever the outcomes of the requests were.
C34_NoIndicationLeft ==
    (\A i \in Inv : inv[i].pc # "fetch") => statusBar = 0

\* C35: the saveData of saveSettings leaves the `embeddings` property of the
\* persisted record as the latest save of the cache wrote it.
C35_SettingsSaveKeepsCache ==
    [][\A t \in TaskIds :
          /\ tasks[t].kind = "settings" /\ tasks[t].phase = "write"
          /\ tasks'[t].kind = "none"
          => data'.embeddings = data.embeddings
      ]_vars

\* C36: once a saveSettings and the saveEmbeddingCache of an invocation have
\* both completed, in whatever order their steps were taken, the persisted
\* record holds the settings that were saved and the cache that was flushed.
C36_NoLostUpdate ==
    \A i \in Inv :
        /\ \A t \in TaskIds : tasks[t].kind = "none"
        /\ inv[i].pc = "done" /\ inv[i].flush.phase = "none"
        /\ used.sets > 0
        => /\ \A k \in SettingsKeys \ ({"apiKey"} \cup OptionalKeys) :
                  data[k] = Some(settings[k])
           /\ data.embeddings = Some(ObjectFromEntries(embeddings))

\* C37: when saveSettings has written the record (and encryptApiKey did not
\* fail), loadSettings on that record gives the API key the settings held
\* at the save, the empty key included.
C37_ApiKeyRoundTrip ==
    [][\A t \in TaskIds :
          /\ tasks[t].kind = "settings" /\ tasks[t].phase = "write"
          /\ tasks'[t].kind = "none"
          /\ tasks[t].dataToSave.encryptedApiKey # Some(Placeholder)
          => loadSettings(data').apiKey = tasks[t].dataToSave.apiKey
      ]_vars

\* C38: slot 1 was started once and slot 2 after it, so the invocation of
\* slot 2 is the one started last; when both have finished and no timer of
\* theirs is pending, the sidebar shows the note and the results of slot 2.
C38_LatestStartedShown ==
    /\ inv[1].prev.pc = "idle"
    /\ \A i \in Inv : inv[i].pc \in {"done", "failed"} /\ ~inv[i].timer
    /\ inv[2].pc = "done"
    => sidebar.shown = Some([file |-> inv[2].currentFile, results |-> inv[2].topResults])

====
